---- MODULE Spec2Model ----
(***************************************************************************)
(* GenericMaxFlow (ortools/graph/generic_max_flow.h): push-relabel maximum *)
(* flow with global update, the restricted-push priority queue, the source *)
(* saturator with its anti-overflow ceiling and the two-phase return of    *)
(* excess to the source.  Solve() is modelled step by step: one state per  *)
(* push, relabel, BFS labelling and DFS move.                              *)
(***************************************************************************)
EXTENDS Integers, Sequences, FiniteSets, TLC

(***************************************************************************)
(* FlowQuantity is a signed integer; kMaxFlowQuantity is its largest value.*)
(* The model keeps the two's-complement shape with a 3-bit quantity:       *)
(* the range is -(kMaxFlowQuantity+1) .. kMaxFlowQuantity.                 *)
(***************************************************************************)
kMaxFlowQuantity == 3

\* Bounds of the explored inputs.
MaxCapacity == 2
MaxSolves == 2
MaxEdits == 1

\* Priorities 0 .. MaxPriority and at most MaxQueueSize elements at a time
\* when the priority queue is used on its own.
MaxPriority == 3
MaxQueueSize == 3

\* Graph::kNilArc, the "no arc" sentinel of the graph container.
kNilArc == 99

Min(a, b) == IF a < b THEN a ELSE b

FlowModulus == 2 * (kMaxFlowQuantity + 1)

\* True when the exact result x is representable as a FlowQuantity.
InRange(x) == x >= -(kMaxFlowQuantity + 1) /\ x <= kMaxFlowQuantity

\* The value a wrapping build stores for the exact result x.
Wrap(x) == ((x + kMaxFlowQuantity + 1) % FlowModulus) - (kMaxFlowQuantity + 1)

\* The capacities given to SetArcCapacity: none, and the two largest ones.
Capacities == {0, Min(MaxCapacity, kMaxFlowQuantity) - 1, Min(MaxCapacity, kMaxFlowQuantity)}

(***************************************************************************)
(* The problems explored: a graph (forward arcs as <<tail, head>>, arc i   *)
(* of the code is arcs[i + 1]), the node reservation of the container and  *)
(* the source and sink given to the constructor.                           *)
(***************************************************************************)
Problem(n, r, s, t, a) ==
    [num_nodes |-> n, node_reservation |-> r, source |-> s, sink |-> t, arcs |-> a]

\* two disjoint paths from the source to the sink
Diamond == Problem(4, 4, 0, 3, << <<0, 1>>, <<0, 2>>, <<1, 3>>, <<2, 3>> >>)

\* parallel arcs and a two-cycle between the inner nodes
TwoCycle == Problem(4, 4, 0, 3, << <<0, 1>>, <<1, 2>>, <<1, 2>>, <<2, 1>>, <<2, 3>> >>)

\* a chain with parallel arcs in a graph with isolated nodes
Chain == Problem(7, 7, 0, 3, << <<0, 1>>, <<1, 2>>, <<1, 2>>, <<2, 3>> >>)

\* anti-parallel arcs at the source and at the sink
AntiParallel == Problem(3, 3, 0, 2, << <<0, 1>>, <<1, 0>>, <<1, 2>>, <<2, 1>> >>)

\* sink outside the graph, inside the reservation
SinkOutside == Problem(2, 3, 0, 2, << <<0, 1>>, <<1, 0>> >>)

\* source outside the graph, inside the reservation
SourceOutside == Problem(2, 3, 2, 1, << <<0, 1>> >>)

\* a chain of five nodes with parallel arcs at its first two links
StealChain == Problem(5, 5, 0, 4, << <<0, 1>>, <<0, 1>>, <<1, 2>>, <<1, 2>>, <<2, 3>>, <<3, 4>> >>)

\* one arc out of the source, then two paths of equal length to the sink
Fork == Problem(5, 5, 0, 4, << <<0, 1>>, <<1, 2>>, <<1, 3>>, <<2, 4>>, <<3, 4>> >>)

\* a chain with parallel arcs at its middle link, an arc back into the source
\* and an arc out of the sink
BackArcs ==
    Problem(4, 4, 0, 3, << <<0, 1>>, <<1, 0>>, <<1, 2>>, <<1, 2>>, <<2, 3>>, <<3, 2>> >>)

Problems == {Diamond, TwoCycle, Chain, AntiParallel, SinkOutside, SourceOutside}

NOT_SOLVED == "NOT_SOLVED"
OPTIMAL == "OPTIMAL"
INT_OVERFLOW == "INT_OVERFLOW"
BAD_INPUT == "BAD_INPUT"
BAD_RESULT == "BAD_RESULT"
Status == {NOT_SOLVED, OPTIMAL, INT_OVERFLOW, BAD_INPUT, BAD_RESULT}

VARIABLES
    graph_,                  \* the graph the solver borrows
    source_, sink_,
    status_,
    node_excess_,
    node_potential_,
    residual_arc_capacity_,
    first_admissible_arc_,
    even_queue_, odd_queue_, \* active_node_by_height_
    node_in_bfs_queue_, bfs_queue_,
    pc,                      \* position inside Solve(), "idle" outside
    it,                      \* position of the running arc iterator (1-based)
    flow_pushed,             \* SaturateOutgoingArcsFromSource
    skip_active_node, num_skipped,      \* RefineWithGlobalUpdate
    queue_index,             \* GlobalUpdate
    node, old_height,        \* the node being discharged
    stored, visited, arc_stack, index_branch,
    reverse_topological_order,          \* PushFlowExcessBackToSource
    cycle,                   \* the cycle being cancelled, or NoCycle
    return_index,            \* loop index of the excess return
    failed,                  \* debug assertions that did not hold, overflows
    set_capacity,            \* capacity last given to SetArcCapacity, per arc
    last_call,               \* the API call that returned last
    num_solves, num_edits,   \* calls made so far
    results_in_a_row,        \* since the last SetArcCapacity: the result of the first
                             \* Solve() and, after a later one, the latest result
    flow_floor,              \* GetOptimalFlow() of the last Solve() as long as
                             \* SetArcCapacity lowered no capacity since, else 0
    pop_result,              \* a PriorityQueueWithRestrictedPush used on its own:
                             \* the element its last Pop() returned
    queue_use                \* ... and what its caller did: the pairs pushed and not
                             \* yet popped, the pair the last Pop() had to return,
                             \* whether every Push kept the documented precondition

graphVars == <<graph_, source_, sink_>>
flowVars == <<node_excess_, residual_arc_capacity_>>
heightVars == <<node_potential_, first_admissible_arc_>>
queueVars == <<even_queue_, odd_queue_>>
bfsVars == <<node_in_bfs_queue_, bfs_queue_>>
refineVars == <<skip_active_node, num_skipped>>
dischargeVars == <<node, old_height>>
dfsVars == <<stored, visited, arc_stack, index_branch, reverse_topological_order,
             cycle, return_index>>
callVars == <<set_capacity, num_solves, num_edits>>
recordVars == <<results_in_a_row, flow_floor, pop_result, queue_use>>

vars == <<graph_, source_, sink_, status_, node_excess_, node_potential_,
          residual_arc_capacity_, first_admissible_arc_, even_queue_, odd_queue_,
          node_in_bfs_queue_, bfs_queue_, pc, it, flow_pushed, skip_active_node,
          num_skipped, queue_index, node, old_height, stored, visited, arc_stack,
          index_branch, reverse_topological_order, cycle, return_index,
          failed, set_capacity, last_call, num_solves, num_edits, results_in_a_row,
          flow_floor, pop_result, queue_use>>

----------------------------------------------------------------------------
(* The graph container *)

num_nodes == graph_.num_nodes
num_arcs == Len(graph_.arcs)
NodeReservation == graph_.node_reservation
Nodes == 0 .. (num_nodes - 1)
ReservedNodes == 0 .. (NodeReservation - 1)
DirectArcs == 0 .. (num_arcs - 1)
AllArcs == (-num_arcs) .. (num_arcs - 1)

Opposite(arc) == -arc - 1
IsArcDirect(arc) == arc \in AllArcs /\ arc >= 0
ArcTail(arc) == IF arc >= 0 THEN graph_.arcs[arc + 1][1] ELSE graph_.arcs[Opposite(arc) + 1][2]
ArcHead(arc) == IF arc >= 0 THEN graph_.arcs[arc + 1][2] ELSE graph_.arcs[Opposite(arc) + 1][1]

DirectArcSeq == [i \in 1 .. num_arcs |-> i - 1]
IsOutgoingOf(v, arc) == ArcTail(arc) = v
IsIncomingOf(v, arc) == ArcHead(arc) = v

\* OutgoingArcIterator(graph, v)
OutgoingArcs(v) == SelectSeq(DirectArcSeq, LAMBDA a : IsOutgoingOf(v, a))
\* IncomingArcIterator(graph, v)
IncomingArcs(v) == SelectSeq(DirectArcSeq, LAMBDA a : IsIncomingOf(v, a))
\* OutgoingOrOppositeIncomingArcIterator(graph, v)
OutgoingOrOppositeIncomingArcs(v) ==
    OutgoingArcs(v) \o [i \in 1 .. Len(IncomingArcs(v)) |-> Opposite(IncomingArcs(v)[i])]

\* Position at which OutgoingOrOppositeIncomingArcIterator(graph, v, arc)
\* starts; past the end for kNilArc.
IteratorStart(v, arc) ==
    LET seq == OutgoingOrOppositeIncomingArcs(v)
        S == {i \in 1 .. Len(seq) : seq[i] = arc}
    IN IF S = {} THEN Len(seq) + 1 ELSE CHOOSE i \in S : TRUE

\* The first of the positions S of the arcs a loop acts on, 0 when there is
\* none.
FirstIndex(S) ==
    IF S = {} THEN 0 ELSE CHOOSE i \in S : \A j \in S : i <= j

----------------------------------------------------------------------------
(* Accessors *)

Flow(arc) ==
    IF IsArcDirect(arc) THEN residual_arc_capacity_[Opposite(arc)]
    ELSE -residual_arc_capacity_[arc]

CapacityIn(res, arc) ==
    IF arc \in DOMAIN res /\ arc >= 0 THEN Wrap(res[arc] + res[Opposite(arc)]) ELSE 0

Capacity(arc) == CapacityIn(residual_arc_capacity_, arc)

\* Variant: the excess of the source instead of that of the sink.
GetOptimalFlowAtSource == node_excess_[source_]

GetOptimalFlow == node_excess_[sink_]

IsAdmissible(tail, arc, potentials) ==
    residual_arc_capacity_[arc] > 0 /\ potentials[tail] = potentials[ArcHead(arc)] + 1

IsActive(n) == n # source_ /\ n # sink_ /\ node_excess_[n] > 0

----------------------------------------------------------------------------
(* Values of locals that are out of scope *)

NoVector == [n \in {} |-> 0]
NoCycle == [arc |-> kNilArc]
NoNode == -1

\* Nothing pushed yet; the pair <<NoNode, 0>> stands for no Pop() so far.
NoQueueUse == [present |-> <<>>, expected |-> <<NoNode, 0>>, contract_kept |-> TRUE]

LocalsIdle ==
    /\ it = 0 /\ flow_pushed = FALSE
    /\ skip_active_node = NoVector /\ num_skipped = 0
    /\ queue_index = 0
    /\ node = NoNode /\ old_height = 0
    /\ stored = NoVector /\ visited = NoVector
    /\ arc_stack = <<>> /\ index_branch = <<>>
    /\ reverse_topological_order = <<>>
    /\ cycle = NoCycle /\ return_index = 0

----------------------------------------------------------------------------
(* Construction *)

\* GenericMaxFlow(graph, source, sink).  status_ has no initializer: its
\* value after construction is indeterminate.
Constructed(p) ==
    /\ graph_ = [num_nodes |-> p.num_nodes, node_reservation |-> p.node_reservation,
                 arcs |-> p.arcs]
    /\ source_ = p.source
    /\ sink_ = p.sink
    /\ node_excess_ = [n \in 0 .. (p.node_reservation - 1) |-> 0]
    /\ node_potential_ = [n \in 0 .. (p.node_reservation - 1) |-> 0]
    /\ first_admissible_arc_ = [n \in 0 .. (p.node_reservation - 1) |-> kNilArc]
    /\ residual_arc_capacity_ = [a \in (-Len(p.arcs)) .. (Len(p.arcs) - 1) |-> 0]
    /\ set_capacity = [a \in 0 .. (Len(p.arcs) - 1) |-> 0]
    /\ status_ \in Status
    /\ even_queue_ = <<>> /\ odd_queue_ = <<>>
    /\ node_in_bfs_queue_ = NoVector /\ bfs_queue_ = <<>>
    /\ pc = "idle"
    /\ LocalsIdle
    /\ failed = {}
    /\ last_call = "GenericMaxFlow"
    /\ num_solves = 0 /\ num_edits = 0
    /\ results_in_a_row = <<>>
    /\ flow_floor = 0
    /\ pop_result = NoNode
    /\ queue_use = NoQueueUse

Init == \E p \in Problems : Constructed(p)

----------------------------------------------------------------------------
(* PushFlow and FastPushFlow *)

PushFlowResidual(flow, arc) ==
    [residual_arc_capacity_ EXCEPT ![arc] = Wrap(@ - flow),
                                   ![Opposite(arc)] = Wrap(@ + flow)]

\* Variant: the head of the arc is not credited.
PushFlowExcessTailOnly(flow, tail, arc) ==
    [node_excess_ EXCEPT ![tail] = Wrap(@ - flow)]

PushFlowExcess(flow, tail, arc) ==
    LET e == [node_excess_ EXCEPT ![tail] = Wrap(@ - flow)]
    IN [e EXCEPT ![ArcHead(arc)] = Wrap(@ + flow)]

\* The DCHECKs of PushFlow that fail, and arithmetic that leaves the range.
PushFlowFailures(flow, tail, arc) ==
    (IF flow = 0 THEN {"PushFlow: DCHECK_NE(flow, 0)"} ELSE {})
    \cup (IF PushFlowResidual(flow, arc)[arc] < 0
             \/ PushFlowResidual(flow, arc)[Opposite(arc)] < 0
          THEN {"PushFlow: DCHECK_GE(residual_arc_capacity_, 0)"} ELSE {})
    \cup (IF /\ InRange(residual_arc_capacity_[arc] - flow)
             /\ InRange(residual_arc_capacity_[Opposite(arc)] + flow)
             /\ InRange(node_excess_[tail] - flow)
             /\ InRange((IF ArcHead(arc) = tail THEN Wrap(node_excess_[tail] - flow)
                         ELSE node_excess_[ArcHead(arc)]) + flow)
          THEN {} ELSE {"signed overflow"})

FastPushFlowResidual(flow, arc) ==
    [residual_arc_capacity_ EXCEPT ![arc] = Wrap(@ - flow),
                                   ![Opposite(arc)] = Wrap(@ + flow)]

\* Variant: the excess moves from the head of the arc to its tail.
FastPushFlowExcessReversed(flow, tail, arc) ==
    LET e == [node_excess_ EXCEPT ![tail] = Wrap(@ + flow)]
    IN [e EXCEPT ![ArcHead(arc)] = Wrap(@ - flow)]

FastPushFlowExcess(flow, tail, arc) ==
    LET e == [node_excess_ EXCEPT ![tail] = Wrap(@ - flow)]
    IN [e EXCEPT ![ArcHead(arc)] = Wrap(@ + flow)]

FastPushFlowFailures(flow, tail, arc) ==
    (IF flow = 0 THEN {"FastPushFlow: DCHECK_NE(flow, 0)"} ELSE {})
    \cup (IF FastPushFlowResidual(flow, arc)[arc] < 0
             \/ FastPushFlowResidual(flow, arc)[Opposite(arc)] < 0
          THEN {"FastPushFlow: DCHECK_GE(residual_arc_capacity_, 0)"} ELSE {})
    \cup (IF /\ InRange(residual_arc_capacity_[arc] - flow)
             /\ InRange(residual_arc_capacity_[Opposite(arc)] + flow)
             /\ InRange(node_excess_[tail] - flow)
             /\ InRange((IF ArcHead(arc) = tail THEN Wrap(node_excess_[tail] - flow)
                         ELSE node_excess_[ArcHead(arc)]) + flow)
          THEN {} ELSE {"signed overflow"})

----------------------------------------------------------------------------
(* SetArcCapacity *)

\* Variant: the residual capacity of the opposite arc is kept.
SetCapacityKeepOpposite(res, arc, capacity) ==
    [res EXCEPT ![arc] = capacity]

SetCapacityAndClearFlow(res, arc, capacity) ==
    [res EXCEPT ![arc] = capacity, ![Opposite(arc)] = 0]

\* Variant: the capacity change is always taken from the free capacity,
\* without the case that clears the flow.
SetArcCapacityResidualKeepFlow(arc, new_capacity) ==
    [residual_arc_capacity_ EXCEPT
        ![arc] = Wrap(@ + Wrap(new_capacity - Capacity(arc)))]

\* Variant: every change of capacity clears the flow on the arc.
SetArcCapacityResidualClearFlow(arc, new_capacity) ==
    IF Wrap(new_capacity - Capacity(arc)) = 0 THEN residual_arc_capacity_
    ELSE SetCapacityAndClearFlow(residual_arc_capacity_, arc, new_capacity)

\* Variant: an increase of the capacity of an arc with flow closes the arc.
SetArcCapacityResidualRaiseCloses(arc, new_capacity) ==
    LET free_capacity == residual_arc_capacity_[arc]
        capacity_delta == Wrap(new_capacity - Capacity(arc))
    IN IF capacity_delta > 0 /\ Flow(arc) > 0
       THEN SetCapacityAndClearFlow(residual_arc_capacity_, arc, 0)
       ELSE IF Wrap(free_capacity + capacity_delta) >= 0
            THEN SetArcCapacityResidualKeepFlow(arc, new_capacity)
            ELSE SetCapacityAndClearFlow(residual_arc_capacity_, arc, new_capacity)

SetArcCapacityResidual(arc, new_capacity) ==
    LET free_capacity == residual_arc_capacity_[arc]
        capacity_delta == Wrap(new_capacity - Capacity(arc))
    IN IF capacity_delta = 0 THEN residual_arc_capacity_
       ELSE IF Wrap(free_capacity + capacity_delta) >= 0
            THEN [residual_arc_capacity_ EXCEPT ![arc] = Wrap(free_capacity + capacity_delta)]
            ELSE SetCapacityAndClearFlow(residual_arc_capacity_, arc, new_capacity)

\* Variant: only a reduction of the capacity invalidates the result.
SetArcCapacityStatusOnReduction(arc, new_capacity) ==
    IF Wrap(new_capacity - Capacity(arc)) < 0 THEN NOT_SOLVED ELSE status_

\* Variant: every call invalidates the result, also one that changes nothing.
SetArcCapacityStatusAlways(arc, new_capacity) == NOT_SOLVED

SetArcCapacityStatus(arc, new_capacity) ==
    IF Wrap(new_capacity - Capacity(arc)) = 0 THEN status_ ELSE NOT_SOLVED

SetArcCapacity(arc, new_capacity) ==
    /\ pc = "idle"
    /\ num_solves = 0 \/ (num_solves < MaxSolves /\ num_edits < MaxEdits)
    /\ residual_arc_capacity_' = SetArcCapacityResidual(arc, new_capacity)
    /\ status_' = SetArcCapacityStatus(arc, new_capacity)
    /\ set_capacity' = [set_capacity EXCEPT ![arc] = new_capacity]
    /\ num_edits' = IF num_solves = 0 THEN 0 ELSE num_edits + 1
    /\ last_call' = "SetArcCapacity"
    /\ results_in_a_row' = <<>>
    /\ flow_floor' = IF new_capacity >= Capacity(arc) THEN flow_floor ELSE 0
    /\ UNCHANGED <<pop_result, queue_use>>
    /\ UNCHANGED <<graphVars, node_excess_, heightVars, queueVars, bfsVars, pc, it,
                   flow_pushed, refineVars, queue_index, dischargeVars, dfsVars,
                   failed, num_solves>>

----------------------------------------------------------------------------
(* Solve: InitializePreflow and the corner case of source or sink outside *)

\* Variant: the flow is cleared but the capacity it used is not given back.
InitializePreflowResidualLossy ==
    [a \in AllArcs |-> IF a >= 0 THEN residual_arc_capacity_[a] ELSE 0]

\* Variant: the flow of the previous Solve() is left on the arcs.
InitializePreflowResidualKeepFlow == residual_arc_capacity_

InitializePreflowResidual ==
    [a \in AllArcs |-> IF a >= 0 THEN Capacity(a) ELSE 0]

InitializePreflowPotential ==
    [[n \in ReservedNodes |-> 0] EXCEPT ![source_] = num_nodes]

(* ComputeReachableNodes, used by the two cut queries *)
RECURSIVE ReachableScan(_, _, _, _, _, _)
ReachableScan(res, reverse, n, i, queue, in_queue) ==
    LET seq == OutgoingOrOppositeIncomingArcs(n)
    IN IF i > Len(seq) THEN <<queue, in_queue>>
       ELSE LET arc == seq[i]
                head == ArcHead(arc)
            IN IF in_queue[head]
                  \/ res[IF reverse THEN Opposite(arc) ELSE arc] = 0
               THEN ReachableScan(res, reverse, n, i + 1, queue, in_queue)
               ELSE ReachableScan(res, reverse, n, i + 1, Append(queue, head),
                                  [in_queue EXCEPT ![head] = TRUE])

RECURSIVE ReachableSearch(_, _, _, _, _)
ReachableSearch(res, reverse, index, queue, in_queue) ==
    IF index = Len(queue) THEN <<queue, in_queue>>
    ELSE LET scanned == ReachableScan(res, reverse, queue[index + 1], 1, queue, in_queue)
         IN ReachableSearch(res, reverse, index + 1, scanned[1], scanned[2])

\* Variant: the search follows the arcs in the other direction.
ComputeReachableNodesSwapped(reverse, start) ==
    IF start >= num_nodes THEN <<<<start>>, bfs_queue_, node_in_bfs_queue_>>
    ELSE LET found == ReachableSearch(residual_arc_capacity_, ~reverse, 0, <<start>>, [n \in Nodes |-> n = start])
         IN <<found[1], found[1], found[2]>>

\* <<bfs_queue_, node_in_bfs_queue_>> after
\* ComputeReachableNodes<reverse>(start, result).
ComputeReachableNodes(reverse, start) ==
    IF start >= num_nodes THEN <<<<start>>, bfs_queue_, node_in_bfs_queue_>>
    ELSE LET found == ReachableSearch(residual_arc_capacity_, reverse, 0, <<start>>, [n \in Nodes |-> n = start])
         IN <<found[1], found[1], found[2]>>

\* The vector a cut query returns when the residual capacities are res.
ReachableNodes(res, reverse, start) ==
    IF start >= num_nodes THEN <<start>>
    ELSE ReachableSearch(res, reverse, 0, <<start>>, [n \in Nodes |-> n = start])[1]

\* What the accessors give once Solve() has returned with the given
\* status_, node_excess_ and residual_arc_capacity_: status(),
\* GetOptimalFlow(), the residual capacities behind Flow() and Capacity(),
\* the excesses, and the vectors of the two cut queries.
SolveResult(status, excess, res) ==
    [status |-> status,
     optimal_flow |-> excess[sink_],
     residual_arc_capacity |-> res,
     node_excess |-> excess,
     source_side_min_cut |-> ReachableNodes(res, FALSE, source_),
     sink_side_min_cut |-> ReachableNodes(res, TRUE, sink_)]

\* Variant: only the source is looked for outside the graph.
SourceOutsideGraph == source_ >= num_nodes

\* The corner case of Solve(): source_ or sink_ is not inside graph_.
SourceOrSinkOutsideGraph == sink_ >= num_nodes \/ source_ >= num_nodes

Solve ==
    /\ pc = "idle"
    /\ num_solves < MaxSolves
    /\ node_excess_' = [n \in ReservedNodes |-> 0]
    /\ residual_arc_capacity_' = InitializePreflowResidual
    /\ node_potential_' = InitializePreflowPotential
    /\ first_admissible_arc_' = [n \in ReservedNodes |-> kNilArc]
    /\ num_solves' = num_solves + 1
    /\ num_edits' = 0
    /\ IF SourceOrSinkOutsideGraph
       THEN /\ status_' = OPTIMAL
            /\ pc' = "idle"
            /\ last_call' = "Solve"
       ELSE /\ status_' = NOT_SOLVED
            /\ pc' = "Saturate"
            /\ last_call' = "Solve"
    /\ it' = IF SourceOrSinkOutsideGraph THEN 0 ELSE 1
    /\ UNCHANGED <<graphVars, queueVars, bfsVars, flow_pushed, refineVars, queue_index,
                   dischargeVars, dfsVars, failed, set_capacity>>
    /\ results_in_a_row' =
          IF SourceOrSinkOutsideGraph
          THEN Append(SubSeq(results_in_a_row, 1, Min(1, Len(results_in_a_row))),
                      SolveResult(OPTIMAL, [n \in ReservedNodes |-> 0],
                                  InitializePreflowResidual))
          ELSE SubSeq(results_in_a_row, 1, Min(1, Len(results_in_a_row)))
    /\ flow_floor' = IF SourceOrSinkOutsideGraph THEN 0 ELSE flow_floor
    /\ UNCHANGED <<pop_result, queue_use>>

----------------------------------------------------------------------------
(* SaturateOutgoingArcsFromSource, one outgoing arc of the source per step *)

\* Variant: an arc with one unit of residual capacity is not saturated.
SourceArcAdmissibleAboveOne(arc) ==
    ~(residual_arc_capacity_[arc] <= 1 \/ node_potential_[ArcHead(arc)] >= num_nodes)

\* The special IsAdmissible() condition for the source.
SourceArcAdmissible(arc) ==
    ~(residual_arc_capacity_[arc] = 0 \/ node_potential_[ArcHead(arc)] >= num_nodes)

SaturateNextArc ==
    LET seq == OutgoingArcs(source_)
    IN FirstIndex({i \in it .. Len(seq) : SourceArcAdmissible(seq[i])})

\* The function returns: true continues with the inner loop of
\* RefineWithGlobalUpdate, false leaves its while loop.
SaturateReturn(value) ==
    /\ pc' = IF value THEN "DoLoop" ELSE "Finish"
    /\ it' = 0
    /\ flow_pushed' = FALSE

\* Variant: the call goes on whatever the excesses are on entry.
SaturateEntryNeverRefuses == FALSE

\* The two tests made on entry.
SaturateEntryRefuses ==
    /\ it = 1 /\ ~flow_pushed
    /\ \/ node_excess_[sink_] = kMaxFlowQuantity
       \/ node_excess_[source_] = -kMaxFlowQuantity

SaturateStop ==
    /\ pc = "Saturate"
    /\ \/ SaturateEntryRefuses /\ SaturateReturn(FALSE) /\ failed' = failed
       \/ /\ ~SaturateEntryRefuses
          /\ SaturateNextArc = 0
          /\ SaturateReturn(flow_pushed)
          /\ failed' = failed \cup (IF node_excess_[source_] <= 0 THEN {}
                ELSE {"SaturateOutgoingArcsFromSource: DCHECK_LE(node_excess_[source_], 0)"})
    /\ UNCHANGED <<graphVars, status_, flowVars, heightVars, queueVars, bfsVars,
                   refineVars, queue_index, dischargeVars, dfsVars, set_capacity, last_call, num_solves, num_edits, recordVars>>

\* Variant: the cap ignores the flow already leaving the source.
CappedFlowIgnoresCurrent(current_flow_out_of_source) == kMaxFlowQuantity

\* capped_flow = kMaxFlowQuantity - current_flow_out_of_source.
CappedFlow(current_flow_out_of_source) ==
    Wrap(kMaxFlowQuantity - current_flow_out_of_source)

SaturatePush ==
    /\ pc = "Saturate"
    /\ ~SaturateEntryRefuses
    /\ SaturateNextArc # 0
    /\ LET arc == OutgoingArcs(source_)[SaturateNextArc]
           flow == residual_arc_capacity_[arc]
           current_flow_out_of_source == Wrap(-node_excess_[source_])
           capped_flow == CappedFlow(current_flow_out_of_source)
           checks == (IF flow >= 0 THEN {}
                      ELSE {"SaturateOutgoingArcsFromSource: DCHECK_GE(flow, 0)"})
                     \cup (IF current_flow_out_of_source >= 0 THEN {}
                           ELSE {"SaturateOutgoingArcsFromSource: DCHECK_GE(current_flow_out_of_source, 0)"})
                     \cup (IF InRange(-node_excess_[source_])
                              /\ InRange(kMaxFlowQuantity - current_flow_out_of_source)
                           THEN {} ELSE {"signed overflow"})
       IN IF capped_flow < flow
          THEN IF capped_flow = 0
               THEN /\ SaturateReturn(TRUE)
                    /\ failed' = failed \cup checks
                    /\ UNCHANGED flowVars
               ELSE /\ residual_arc_capacity_' = PushFlowResidual(capped_flow, arc)
                    /\ node_excess_' = PushFlowExcess(capped_flow, source_, arc)
                    /\ failed' = failed \cup checks
                                 \cup PushFlowFailures(capped_flow, source_, arc)
                    /\ SaturateReturn(TRUE)
          ELSE /\ residual_arc_capacity_' = PushFlowResidual(flow, arc)
               /\ node_excess_' = PushFlowExcess(flow, source_, arc)
               /\ failed' = failed \cup checks \cup PushFlowFailures(flow, source_, arc)
               /\ flow_pushed' = TRUE
               /\ it' = SaturateNextArc + 1
               /\ pc' = "Saturate"
    /\ UNCHANGED <<graphVars, status_, heightVars, queueVars, bfsVars, refineVars,
                   queue_index, dischargeVars, dfsVars, set_capacity,
                   last_call, num_solves, num_edits, recordVars>>

----------------------------------------------------------------------------
(* PriorityQueueWithRestrictedPush *)

IsEmpty(even, odd) == even = <<>> /\ odd = <<>>

\* The queues after Push(element, priority), as <<even_queue_, odd_queue_>>.
Push(even, odd, element, priority) ==
    IF priority % 2 = 1
    THEN <<even, Append(odd, <<element, priority>>)>>
    ELSE <<Append(even, <<element, priority>>), odd>>

\* Variant: only the two assertions on the vector pushed to.
PushFailuresSameParity(even, odd, priority) ==
    IF priority % 2 = 1
    THEN (IF odd = <<>> \/ priority >= odd[Len(odd)][2] THEN {}
          ELSE {"Push: DCHECK(priority >= odd_queue_.back().second)"})
    ELSE (IF even = <<>> \/ priority >= even[Len(even)][2] THEN {}
          ELSE {"Push: DCHECK(priority >= even_queue_.back().second)"})

\* The DCHECKs of Push that fail.
PushFailures(even, odd, priority) ==
    (IF even = <<>> \/ priority >= even[Len(even)][2] - 1 THEN {}
     ELSE {"Push: DCHECK(priority >= even_queue_.back().second - 1)"})
    \cup (IF odd = <<>> \/ priority >= odd[Len(odd)][2] - 1 THEN {}
          ELSE {"Push: DCHECK(priority >= odd_queue_.back().second - 1)"})
    \cup (IF priority % 2 = 1
          THEN (IF odd = <<>> \/ priority >= odd[Len(odd)][2] THEN {}
                ELSE {"Push: DCHECK(priority >= odd_queue_.back().second)"})
          ELSE (IF even = <<>> \/ priority >= even[Len(even)][2] THEN {}
                ELSE {"Push: DCHECK(priority >= even_queue_.back().second)"}))

\* Variant: the comparison of the two back priorities is inverted.
PopTakesOddWhenLower(even, odd) ==
    IF even = <<>> THEN TRUE
    ELSE IF odd = <<>> THEN FALSE
    ELSE odd[Len(odd)][2] < even[Len(even)][2]

\* The DCHECKs of Pop() and of its PopBack() that fail: with both vectors
\* empty Pop() goes on to PopBack(&odd_queue_).
PopFailures(even, odd) ==
    IF IsEmpty(even, odd)
    THEN {"Pop: DCHECK(!IsEmpty())", "PopBack: DCHECK(!queue->empty())"}
    ELSE {}

\* TRUE when Pop() takes from odd_queue_, FALSE when from even_queue_.
PopTakesOdd(even, odd) ==
    IF even = <<>> THEN TRUE
    ELSE IF odd = <<>> THEN FALSE
    ELSE odd[Len(odd)][2] > even[Len(even)][2]

\* Pop() on a non-empty queue: <<element, even_queue_, odd_queue_>>.
Pop(even, odd) ==
    IF PopTakesOdd(even, odd)
    THEN <<odd[Len(odd)][1], even, SubSeq(odd, 1, Len(odd) - 1)>>
    ELSE <<even[Len(even)][1], SubSeq(even, 1, Len(even) - 1), odd>>

----------------------------------------------------------------------------
(* RefineWithGlobalUpdate: head of the do-while body, GlobalUpdate prologue *)

\* Variant: only the source is excluded from the discharge loop.
SkipSourceOnly == [[n \in ReservedNodes |-> 0] EXCEPT ![source_] = 2]

\* skip_active_node at the head of the do-while body: the source and the sink
\* are never discharged.
SkipSourceAndSink ==
    [[[n \in ReservedNodes |-> 0] EXCEPT ![sink_] = 2] EXCEPT ![source_] = 2]

DoLoop ==
    /\ pc = "DoLoop"
    /\ num_skipped' = 0
    /\ skip_active_node' = SkipSourceAndSink
    /\ bfs_queue_' = <<sink_>>
    /\ queue_index' = 0
    /\ node_in_bfs_queue_' =
          [[[n \in Nodes |-> FALSE] EXCEPT ![sink_] = TRUE] EXCEPT ![source_] = TRUE]
    /\ it' = 0
    /\ pc' = "GlobalUpdate"
    /\ UNCHANGED <<graphVars, status_, flowVars, heightVars, queueVars, flow_pushed,
                   dischargeVars, dfsVars, failed, set_capacity, last_call,
                   num_solves, num_edits, recordVars>>

----------------------------------------------------------------------------
(* GlobalUpdate: reverse BFS from the sink *)

\* Variant: the BFS also crosses arcs whose opposite arc is saturated.
BfsArcUsableWhenSaturated(arc) == ~node_in_bfs_queue_[ArcHead(arc)]

\* The arcs the BFS acts on: head not yet in the queue and the opposite arc
\* residual.
BfsArcUsable(arc) ==
    /\ ~node_in_bfs_queue_[ArcHead(arc)]
    /\ residual_arc_capacity_[Opposite(arc)] > 0

\* while (queue_index != bfs_queue_.size()): take the next node.
GlobalUpdateNextNode ==
    /\ pc = "GlobalUpdate"
    /\ it = 0
    /\ queue_index # Len(bfs_queue_)
    /\ queue_index' = queue_index + 1
    /\ it' = 1
    /\ UNCHANGED <<graphVars, status_, flowVars, heightVars, queueVars, bfsVars, pc,
                   flow_pushed, refineVars, dischargeVars, dfsVars, failed,
                   set_capacity, last_call, num_solves, num_edits, recordVars>>

\* One arc of the node bfs_queue_[queue_index - 1] of the code.
GlobalUpdateArc ==
    /\ pc = "GlobalUpdate"
    /\ it >= 1
    /\ LET n == bfs_queue_[queue_index]
           candidate_distance == node_potential_[n] + 1
           seq == OutgoingOrOppositeIncomingArcs(n)
           j == FirstIndex({i \in it .. Len(seq) : BfsArcUsable(seq[i])})
       IN IF j = 0
          THEN /\ it' = 0
               /\ UNCHANGED <<flowVars, node_potential_, bfsVars, failed>>
          ELSE LET arc == seq[j]
                   head == ArcHead(arc)
                   opposite_arc == Opposite(arc)
                   steal == node_excess_[head] > 0
                   flow == Min(node_excess_[head], residual_arc_capacity_[opposite_arc])
                   saturated == steal /\ FastPushFlowResidual(flow, opposite_arc)[opposite_arc] = 0
               IN /\ it' = j + 1
                  /\ IF steal
                     THEN /\ residual_arc_capacity_' = FastPushFlowResidual(flow, opposite_arc)
                          /\ node_excess_' = FastPushFlowExcess(flow, head, opposite_arc)
                          /\ failed' = failed \cup FastPushFlowFailures(flow, head, opposite_arc)
                     ELSE UNCHANGED <<flowVars, failed>>
                  /\ IF saturated
                     THEN UNCHANGED <<node_potential_, bfsVars>>
                     ELSE /\ node_potential_' = [node_potential_ EXCEPT ![head] = candidate_distance]
                          /\ node_in_bfs_queue_' = [node_in_bfs_queue_ EXCEPT ![head] = TRUE]
                          /\ bfs_queue_' = Append(bfs_queue_, head)
    /\ UNCHANGED <<graphVars, status_, first_admissible_arc_, queueVars, pc, flow_pushed,
                   refineVars, queue_index, dischargeVars, dfsVars, set_capacity, last_call, num_solves, num_edits, recordVars>>

\* Variant: the nodes the BFS did not reach are lifted to 2 * num_nodes.
GlobalUpdateUnreachedTwiceNodes ==
    [n \in ReservedNodes |->
        IF n \in Nodes /\ ~node_in_bfs_queue_[n] THEN 2 * num_nodes
        ELSE node_potential_[n]]

\* Heights of the nodes the BFS did not reach.
GlobalUpdateUnreached ==
    [n \in ReservedNodes |->
        IF n \in Nodes /\ ~node_in_bfs_queue_[n] THEN 2 * num_nodes - 1
        ELSE node_potential_[n]]

\* Variant: every node the BFS reached is pushed.
SeedsNodeWithoutExcess(n) == TRUE

\* if (node_excess_[node] > 0) in the final loop of GlobalUpdate.
SeedsNode(n) == node_excess_[n] > 0

\* The final loop of GlobalUpdate from position i of bfs_queue_ (1-based):
\* <<even_queue_, odd_queue_, failed assertions>>.
RECURSIVE SeedActiveNodes(_, _, _, _)
SeedActiveNodes(i, even, odd, fails) ==
    IF i > Len(bfs_queue_) THEN <<even, odd, fails>>
    ELSE LET n == bfs_queue_[i]
         IN IF SeedsNode(n)
            THEN SeedActiveNodes(i + 1,
                     Push(even, odd, n, GlobalUpdateUnreached[n])[1],
                     Push(even, odd, n, GlobalUpdateUnreached[n])[2],
                     fails \cup PushFailures(even, odd, GlobalUpdateUnreached[n])
                           \cup (IF IsActive(n) THEN {}
                                 ELSE {"GlobalUpdate: DCHECK(IsActive(node))"}))
            ELSE SeedActiveNodes(i + 1, even, odd, fails)

GlobalUpdateFinish ==
    /\ pc = "GlobalUpdate"
    /\ it = 0
    /\ queue_index = Len(bfs_queue_)
    /\ node_potential_' = GlobalUpdateUnreached
    /\ LET seeded == SeedActiveNodes(2, even_queue_, odd_queue_,
                        IF IsEmpty(even_queue_, odd_queue_) THEN {}
                        ELSE {"GlobalUpdate: DCHECK(IsEmptyActiveNodeContainer())"})
       IN /\ even_queue_' = seeded[1]
          /\ odd_queue_' = seeded[2]
          /\ failed' = failed \cup seeded[3]
    /\ queue_index' = 0
    /\ pc' = "ActiveLoop"
    /\ UNCHANGED <<graphVars, status_, flowVars, first_admissible_arc_, bfsVars, it,
                   flow_pushed, refineVars, dischargeVars, dfsVars, set_capacity, last_call, num_solves, num_edits, recordVars>>

----------------------------------------------------------------------------
(* RefineWithGlobalUpdate: the loop over the active nodes *)

\* std::numeric_limits<NodeHeight>::max()
kMaxNodeHeight == 1000

\* The statements of the loop body that follow the return of Discharge(node).
AfterDischarge(potential) ==
    /\ skip_active_node' =
          IF potential[node] > old_height + 1
          THEN [skip_active_node EXCEPT ![node] = @ + 1]
          ELSE skip_active_node
    /\ node' = NoNode
    /\ old_height' = 0
    /\ it' = 0
    /\ pc' = "ActiveLoop"

DischargeEntryFailures(n) ==
    IF IsActive(n) THEN {} ELSE {"Discharge: DCHECK(IsActive(node))"}

\* while (!IsEmptyActiveNodeContainer()): pop a node, skip it or enter Discharge.
PopActiveNode ==
    /\ pc = "ActiveLoop"
    /\ ~IsEmpty(even_queue_, odd_queue_)
    /\ LET popped == Pop(even_queue_, odd_queue_)
           n == popped[1]
       IN /\ even_queue_' = popped[2]
          /\ odd_queue_' = popped[3]
          /\ IF skip_active_node[n] > 1
             THEN /\ num_skipped' = IF n # sink_ /\ n # source_ THEN num_skipped + 1
                                    ELSE num_skipped
                  /\ UNCHANGED <<pc, it, dischargeVars, failed>>
             ELSE /\ node' = n
                  /\ old_height' = node_potential_[n]
                  /\ it' = IteratorStart(n, first_admissible_arc_[n])
                  /\ pc' = "Discharge"
                  /\ failed' = failed \cup DischargeEntryFailures(n)
                  /\ UNCHANGED num_skipped
    /\ UNCHANGED <<graphVars, status_, flowVars, heightVars, bfsVars, flow_pushed,
                   skip_active_node, queue_index, dfsVars, set_capacity,
                   last_call, num_solves, num_edits, recordVars>>

\* Variant: the do-while body is never repeated.
AfterActiveLoopNeverRepeats == "PushBack"

\* } while (num_skipped > 0); then PushFlowExcessBackToSource().
AfterActiveLoop == IF num_skipped > 0 THEN "DoLoop" ELSE "PushBack"

\* The active queue is empty: repeat the do-while body when a node was
\* skipped, otherwise call PushFlowExcessBackToSource.
ActiveLoopEnd ==
    /\ pc = "ActiveLoop"
    /\ IsEmpty(even_queue_, odd_queue_)
    /\ pc' = AfterActiveLoop
    /\ UNCHANGED <<graphVars, status_, flowVars, heightVars, queueVars, bfsVars, it,
                   flow_pushed, refineVars, queue_index, dischargeVars, dfsVars,
                   failed, set_capacity, last_call, num_solves, num_edits, recordVars>>

----------------------------------------------------------------------------
(* Discharge and Relabel *)

\* Variant: Discharge pushes on every arc with residual capacity, whatever the
\* heights.
DischargeAdmissibleAnyHeight(arc) == residual_arc_capacity_[arc] > 0

DischargeAdmissible(arc) == IsAdmissible(node, arc, node_potential_)

DischargeNextArc ==
    LET seq == OutgoingOrOppositeIncomingArcs(node)
    IN FirstIndex({i \in it .. Len(seq) : DischargeAdmissible(seq[i])})

\* Variant: every node is pushed with priority 0.
ActiveNodePriorityZero(n) == 0

\* PushActiveNode(node): the priority is the height of the node.
ActiveNodePriority(n) == node_potential_[n]

\* Variant: Discharge enqueues the head of every arc it pushes on.
DischargeEnqueuesHeadAlways(head) == TRUE

\* if (node_excess[head] == 0) PushActiveNode(head): no test of the sink.
DischargeEnqueuesHead(head) == node_excess_[head] = 0

\* One push of the for loop of Discharge.
DischargePush ==
    /\ pc = "Discharge"
    /\ DischargeNextArc # 0
    /\ LET arc == OutgoingOrOppositeIncomingArcs(node)[DischargeNextArc]
           head == ArcHead(arc)
           delta == Min(node_excess_[node], residual_arc_capacity_[arc])
           pushed == IF DischargeEnqueuesHead(head)
                     THEN Push(even_queue_, odd_queue_, head, ActiveNodePriority(head))
                     ELSE <<even_queue_, odd_queue_>>
           checks == (IF IsActive(node) THEN {} ELSE {"Discharge: DCHECK(IsActive(node))"})
                     \cup (IF DischargeEnqueuesHead(head)
                           THEN PushFailures(even_queue_, odd_queue_, ActiveNodePriority(head))
                           ELSE {})
                     \cup FastPushFlowFailures(delta, node, arc)
       IN /\ even_queue_' = pushed[1]
          /\ odd_queue_' = pushed[2]
          /\ residual_arc_capacity_' = FastPushFlowResidual(delta, arc)
          /\ node_excess_' = FastPushFlowExcess(delta, node, arc)
          /\ failed' = failed \cup checks
          /\ IF node_excess_'[node] = 0
             THEN /\ first_admissible_arc_' = [first_admissible_arc_ EXCEPT ![node] = arc]
                  /\ AfterDischarge(node_potential_)
             ELSE /\ it' = DischargeNextArc + 1
                  /\ UNCHANGED <<first_admissible_arc_, pc, skip_active_node, dischargeVars>>
    /\ UNCHANGED <<graphVars, status_, node_potential_, bfsVars, flow_pushed,
                   num_skipped, queue_index, dfsVars, set_capacity, last_call,
                   num_solves, num_edits, recordVars>>

\* The scan of Relabel from position i of the arcs of n:
\* <<min_height, first_admissible_arc>>.
RECURSIVE RelabelScan(_, _, _, _)
RelabelScan(n, i, min_height, first_admissible_arc) ==
    LET seq == OutgoingOrOppositeIncomingArcs(n)
    IN IF i > Len(seq) THEN <<min_height, first_admissible_arc>>
       ELSE LET arc == seq[i]
                head_height == node_potential_[ArcHead(arc)]
            IN IF residual_arc_capacity_[arc] > 0 /\ head_height < min_height
               THEN IF head_height + 1 = node_potential_[n]
                    THEN <<head_height, arc>>
                    ELSE RelabelScan(n, i + 1, head_height, arc)
               ELSE RelabelScan(n, i + 1, min_height, first_admissible_arc)

\* Variant: Relabel lifts the node straight to the height of the source.
RelabelHeightToSource(n) == num_nodes

\* Variant: Relabel takes the smallest height of a residual neighbour, without
\* the + 1.
RelabelHeightNoLift(n) == RelabelScan(n, 1, kMaxNodeHeight, kNilArc)[1]

\* node_potential_[n] after Relabel(n).
RelabelHeight(n) ==
    LET min_height == RelabelScan(n, 1, kMaxNodeHeight, kNilArc)[1]
    IN IF min_height = kMaxNodeHeight THEN -(kMaxNodeHeight + 1) ELSE min_height + 1

\* first_admissible_arc_[n] after Relabel(n).
RelabelArc(n) == RelabelScan(n, 1, kMaxNodeHeight, kNilArc)[2]

RelabelFailures(n) ==
    IF RelabelArc(n) # kNilArc THEN {}
    ELSE {"Relabel: DCHECK_NE(first_admissible_arc, Graph::kNilArc)", "signed overflow"}

\* The for loop of Discharge found no admissible arc: Relabel(node), then
\* leave when the height reached num_nodes, else scan again.
DischargeRelabel ==
    /\ pc = "Discharge"
    /\ DischargeNextArc = 0
    /\ node_potential_' = [node_potential_ EXCEPT ![node] = RelabelHeight(node)]
    /\ first_admissible_arc_' = [first_admissible_arc_ EXCEPT ![node] = RelabelArc(node)]
    /\ IF node_potential_'[node] >= num_nodes
       THEN /\ AfterDischarge(node_potential_')
            /\ failed' = failed \cup RelabelFailures(node)
       ELSE /\ it' = IteratorStart(node, RelabelArc(node))
            /\ failed' = failed \cup RelabelFailures(node)
                         \cup DischargeEntryFailures(node)
            /\ UNCHANGED <<pc, skip_active_node, dischargeVars>>
    /\ UNCHANGED <<graphVars, status_, flowVars, queueVars, bfsVars, flow_pushed,
                   num_skipped, queue_index, dfsVars, set_capacity, last_call,
                   num_solves, num_edits, recordVars>>

----------------------------------------------------------------------------
(* PushFlowExcessBackToSource: depth-first search cancelling flow cycles *)

PushBack ==
    /\ pc = "PushBack"
    /\ stored' = [n \in Nodes |-> n = sink_]
    /\ visited' = [n \in Nodes |-> n = sink_ \/ n = source_]
    /\ arc_stack' = SelectSeq(OutgoingArcs(source_), LAMBDA a : Flow(a) > 0)
    /\ index_branch' = <<>>
    /\ reverse_topological_order' = <<>>
    /\ it' = 0
    /\ pc' = "Dfs"
    /\ UNCHANGED <<graphVars, status_, flowVars, heightVars, queueVars, bfsVars,
                   flow_pushed, refineVars, queue_index, dischargeVars, cycle,
                   return_index, failed, set_capacity, last_call, num_solves,
                   num_edits, recordVars>>

\* arc_stack[index_branch[i]] of the code (both vectors are 0-based there).
BranchArc(i) == arc_stack[index_branch[i + 1] + 1]

\* The node at the head of the stack is visited: the search backtracks.
DfsBacktrack ==
    /\ pc = "Dfs" /\ it = 0 /\ arc_stack # <<>>
    /\ LET n == ArcHead(arc_stack[Len(arc_stack)])
       IN /\ visited[n]
          /\ IF ~stored[n]
             THEN /\ stored' = [stored EXCEPT ![n] = TRUE]
                  /\ reverse_topological_order' = Append(reverse_topological_order, n)
                  /\ index_branch' = SubSeq(index_branch, 1, Len(index_branch) - 1)
                  /\ failed' = failed \cup
                        (IF index_branch # <<>> THEN {}
                         ELSE {"PushFlowExcessBackToSource: DCHECK(!index_branch.empty())"})
             ELSE UNCHANGED <<stored, reverse_topological_order, index_branch, failed>>
          /\ arc_stack' = SubSeq(arc_stack, 1, Len(arc_stack) - 1)
    /\ UNCHANGED <<graphVars, status_, flowVars, heightVars, queueVars, bfsVars, pc, it,
                   flow_pushed, refineVars, queue_index, dischargeVars, visited, cycle,
                   return_index, set_capacity, last_call, num_solves, num_edits, recordVars>>

\* The node at the head of the stack is new: it joins the current branch.
DfsVisit ==
    /\ pc = "Dfs" /\ it = 0 /\ arc_stack # <<>>
    /\ LET n == ArcHead(arc_stack[Len(arc_stack)])
       IN /\ ~visited[n]
          /\ visited' = [visited EXCEPT ![n] = TRUE]
          /\ index_branch' = Append(index_branch, Len(arc_stack) - 1)
          /\ failed' = failed
                \cup (IF ~stored[n] THEN {}
                      ELSE {"PushFlowExcessBackToSource: DCHECK(!stored[node])"})
                \cup (IF index_branch = <<>>
                         \/ Len(arc_stack) - 1 > index_branch[Len(index_branch)] THEN {}
                      ELSE {"PushFlowExcessBackToSource: DCHECK(arc_stack.size() - 1 > index_branch.back())"})
          /\ it' = 1
    /\ UNCHANGED <<graphVars, status_, flowVars, heightVars, queueVars, bfsVars, pc,
                   flow_pushed, refineVars, queue_index, dischargeVars, stored,
                   arc_stack, reverse_topological_order, cycle, return_index, set_capacity, last_call, num_solves, num_edits, recordVars>>

\* The node whose outgoing arcs the for loop is scanning.
DfsNode == ArcHead(BranchArc(Len(index_branch) - 1))

\* Variant: the search also follows arcs into stored nodes.
DfsArcUsableIntoStored(arc) == Flow(arc) > 0

DfsArcUsable(arc) == Flow(arc) > 0 /\ ~stored[ArcHead(arc)]

\* Variant: the cycle is taken to start at the bottom of the DFS branch.
CycleBeginAtSource(head) == 0

\* cycle_begin: the while loop stops at the last branch arc whose head is head.
CycleBegin(head) ==
    LET S == {c \in 1 .. Len(index_branch) : ArcHead(BranchArc(c - 1)) = head}
    IN IF S = {} THEN 0 ELSE CHOOSE c \in S : \A d \in S : d <= c

\* The loop computing max_flow and first_saturated_index, from index i down
\* to cycle_begin: <<max_flow, first_saturated_index>>.
RECURSIVE CycleScan(_, _, _, _)
CycleScan(i, cycle_begin, max_flow, first_saturated_index) ==
    IF i < cycle_begin THEN <<max_flow, first_saturated_index>>
    ELSE IF Flow(BranchArc(i)) <= max_flow
         THEN CycleScan(i - 1, cycle_begin, Flow(BranchArc(i)), i)
         ELSE CycleScan(i - 1, cycle_begin, max_flow, first_saturated_index)

\* max_flow: the smallest flow on the cycle closed by arc.
CycleMaxFlow(arc, cycle_begin) ==
    CycleScan(Len(index_branch) - 1, cycle_begin, Flow(arc), Len(index_branch))[1]

\* One arc of the for loop over the outgoing arcs of the new node: stack it,
\* or find a cycle and push -max_flow on the arc that closes it.  The record
\* of the cycle also keeps the flows and excesses found when it was detected.
DfsArc ==
    /\ pc = "Dfs" /\ it >= 1 /\ cycle = NoCycle
    /\ LET seq == OutgoingArcs(DfsNode)
           j == FirstIndex({i \in it .. Len(seq) : DfsArcUsable(seq[i])})
       IN IF j = 0
          THEN /\ it' = 0
               /\ UNCHANGED <<flowVars, arc_stack, cycle, failed>>
          ELSE LET arc == seq[j]
                   head == ArcHead(arc)
                   cycle_begin == CycleBegin(head)
                   scan == CycleScan(Len(index_branch) - 1, cycle_begin, Flow(arc),
                                     Len(index_branch))
                   max_flow == CycleMaxFlow(arc, cycle_begin)
               IN IF ~visited[head]
                  THEN /\ arc_stack' = Append(arc_stack, arc)
                       /\ it' = j + 1
                       /\ UNCHANGED <<flowVars, cycle, failed>>
                  ELSE /\ residual_arc_capacity_' = PushFlowResidual(-max_flow, arc)
                       /\ node_excess_' = PushFlowExcess(-max_flow, DfsNode, arc)
                       /\ failed' = failed \cup PushFlowFailures(-max_flow, DfsNode, arc)
                       /\ cycle' = [arc |-> arc, head |-> head,
                                    cycle_begin |-> cycle_begin,
                                    max_flow |-> max_flow,
                                    first_saturated_index |-> scan[2],
                                    excess |-> node_excess_[head],
                                    i |-> Len(index_branch) - 1,
                                    flow_before |-> [a \in DirectArcs |-> Flow(a)],
                                    node_excess_before |-> node_excess_]
                       /\ it' = j
                       /\ UNCHANGED arc_stack
    /\ UNCHANGED <<graphVars, status_, heightVars, queueVars, bfsVars, pc, flow_pushed,
                   refineVars, queue_index, dischargeVars, stored, visited,
                   index_branch, reverse_topological_order, return_index, set_capacity, last_call, num_solves, num_edits, recordVars>>

\* One arc of the cycle being cancelled.
DfsCancelArc ==
    /\ pc = "Dfs" /\ cycle # NoCycle
    /\ cycle.i >= cycle.cycle_begin
    /\ LET arc_on_cycle == BranchArc(cycle.i)
       IN /\ residual_arc_capacity_' = PushFlowResidual(-cycle.max_flow, arc_on_cycle)
          /\ node_excess_' = PushFlowExcess(-cycle.max_flow, ArcTail(arc_on_cycle), arc_on_cycle)
          /\ IF cycle.i >= cycle.first_saturated_index
             THEN /\ visited' = [visited EXCEPT ![ArcHead(arc_on_cycle)] = FALSE]
                  /\ failed' = failed
                       \cup PushFlowFailures(-cycle.max_flow, ArcTail(arc_on_cycle), arc_on_cycle)
                       \cup (IF visited[ArcHead(arc_on_cycle)] THEN {}
                             ELSE {"PushFlowExcessBackToSource: DCHECK(visited[Head(arc_on_cycle)])"})
             ELSE /\ visited' = visited
                  /\ failed' = failed
                       \cup PushFlowFailures(-cycle.max_flow, ArcTail(arc_on_cycle), arc_on_cycle)
                       \cup (IF residual_arc_capacity_'[Opposite(arc_on_cycle)] > 0 THEN {}
                             ELSE {"PushFlowExcessBackToSource: DCHECK_GT(Flow(arc_on_cycle), 0)"})
          /\ cycle' = [cycle EXCEPT !.i = @ - 1]
    /\ UNCHANGED <<graphVars, status_, heightVars, queueVars, bfsVars, pc, it,
                   flow_pushed, refineVars, queue_index, dischargeVars, stored,
                   arc_stack, index_branch, reverse_topological_order, return_index,
                   set_capacity, last_call, num_solves, num_edits, recordVars>>

\* The cycle is cancelled: backtrack before the first saturated arc, or go on
\* with the arcs of the current node.
DfsCancelEnd ==
    /\ pc = "Dfs" /\ cycle # NoCycle
    /\ cycle.i < cycle.cycle_begin
    /\ failed' = failed \cup
          (IF cycle.excess = node_excess_[cycle.head] THEN {}
           ELSE {"PushFlowExcessBackToSource: DCHECK_EQ(excess, node_excess_[head])"})
    /\ IF cycle.first_saturated_index < Len(index_branch)
       THEN /\ arc_stack' = SubSeq(arc_stack, 1, index_branch[cycle.first_saturated_index + 1])
            /\ index_branch' = SubSeq(index_branch, 1, cycle.first_saturated_index)
            /\ it' = 0
       ELSE /\ it' = it + 1
            /\ UNCHANGED <<arc_stack, index_branch>>
    /\ cycle' = NoCycle
    /\ UNCHANGED <<graphVars, status_, flowVars, heightVars, queueVars, bfsVars, pc,
                   flow_pushed, refineVars, queue_index, dischargeVars, stored, visited,
                   reverse_topological_order, return_index, set_capacity,
                   last_call, num_solves, num_edits, recordVars>>

\* The stack is empty: the search is over.
DfsEnd ==
    /\ pc = "Dfs" /\ it = 0 /\ arc_stack = <<>>
    /\ failed' = failed \cup
          (IF index_branch = <<>> THEN {}
           ELSE {"PushFlowExcessBackToSource: DCHECK(index_branch.empty())"})
    /\ return_index' = 0
    /\ pc' = "Return"
    /\ UNCHANGED <<graphVars, status_, flowVars, heightVars, queueVars, bfsVars, it,
                   flow_pushed, refineVars, queue_index, dischargeVars, stored, visited,
                   arc_stack, index_branch, reverse_topological_order, cycle, set_capacity, last_call, num_solves, num_edits, recordVars>>

----------------------------------------------------------------------------
(* PushFlowExcessBackToSource: return of the excess in reverse topological *)
(* order                                                                   *)

ReturnFailures(excess, n) ==
    IF excess[n] = 0 THEN {}
    ELSE {"PushFlowExcessBackToSource: DCHECK_EQ(0, node_excess_[node])"}

\* Head of the outer for loop: skip a node without excess, else start the
\* loop over its incoming arcs.
ReturnNextNode ==
    /\ pc = "Return" /\ it = 0
    /\ return_index < Len(reverse_topological_order)
    /\ IF node_excess_[reverse_topological_order[return_index + 1]] = 0
       THEN return_index' = return_index + 1 /\ it' = 0
       ELSE return_index' = return_index /\ it' = 1
    /\ UNCHANGED <<graphVars, status_, flowVars, heightVars, queueVars, bfsVars, pc,
                   flow_pushed, refineVars, queue_index, dischargeVars, stored, visited,
                   arc_stack, index_branch, reverse_topological_order, cycle, failed, set_capacity, last_call, num_solves, num_edits, recordVars>>

\* Variant: the last unit of flow on an incoming arc is not returned.
ReturnArcUsableAboveOne(arc) == residual_arc_capacity_[Opposite(arc)] > 1

ReturnArcUsable(arc) == residual_arc_capacity_[Opposite(arc)] > 0

\* One incoming arc of the node: push back on its opposite arc.
ReturnPush ==
    /\ pc = "Return" /\ it >= 1
    /\ LET n == reverse_topological_order[return_index + 1]
           seq == IncomingArcs(n)
           j == FirstIndex({i \in it .. Len(seq) : ReturnArcUsable(seq[i])})
       IN IF j = 0
          THEN /\ failed' = failed \cup ReturnFailures(node_excess_, n)
               /\ return_index' = return_index + 1
               /\ it' = 0
               /\ UNCHANGED flowVars
          ELSE LET opposite_arc == Opposite(seq[j])
                   flow == Min(node_excess_[n], residual_arc_capacity_[opposite_arc])
               IN /\ residual_arc_capacity_' = PushFlowResidual(flow, opposite_arc)
                  /\ node_excess_' = PushFlowExcess(flow, n, opposite_arc)
                  /\ IF node_excess_'[n] = 0
                     THEN /\ return_index' = return_index + 1
                          /\ it' = 0
                          /\ failed' = failed \cup PushFlowFailures(flow, n, opposite_arc)
                     ELSE /\ return_index' = return_index
                          /\ it' = j + 1
                          /\ failed' = failed \cup PushFlowFailures(flow, n, opposite_arc)
    /\ UNCHANGED <<graphVars, status_, heightVars, queueVars, bfsVars, pc, flow_pushed,
                   refineVars, queue_index, dischargeVars, stored, visited, arc_stack,
                   index_branch, reverse_topological_order, cycle, set_capacity, last_call, num_solves, num_edits, recordVars>>

\* The function returns to the while condition of RefineWithGlobalUpdate.
ReturnEnd ==
    /\ pc = "Return" /\ it = 0
    /\ return_index >= Len(reverse_topological_order)
    /\ failed' = failed \cup
          (IF Wrap(-node_excess_[source_]) = node_excess_[sink_] THEN {}
           ELSE {"PushFlowExcessBackToSource: DCHECK_EQ(-node_excess_[source_], node_excess_[sink_])"})
    /\ stored' = NoVector /\ visited' = NoVector
    /\ arc_stack' = <<>> /\ index_branch' = <<>>
    /\ reverse_topological_order' = <<>>
    /\ return_index' = 0
    /\ it' = 1
    /\ pc' = "Saturate"
    /\ UNCHANGED <<graphVars, status_, flowVars, heightVars, queueVars, bfsVars,
                   flow_pushed, refineVars, queue_index, dischargeVars, cycle, set_capacity, last_call, num_solves, num_edits, recordVars>>

----------------------------------------------------------------------------
(* AugmentingPathExists, CheckResult, ComputeReachableNodes *)

\* The for loop of AugmentingPathExists over the arcs of n from position i:
\* <<to_process, is_reached>>.
RECURSIVE AugmentingScan(_, _, _, _)
AugmentingScan(n, i, to_process, is_reached) ==
    LET seq == OutgoingOrOppositeIncomingArcs(n)
    IN IF i > Len(seq) THEN <<to_process, is_reached>>
       ELSE IF residual_arc_capacity_[seq[i]] > 0 /\ ~is_reached[ArcHead(seq[i])]
            THEN AugmentingScan(n, i + 1, Append(to_process, ArcHead(seq[i])),
                                [is_reached EXCEPT ![ArcHead(seq[i])] = TRUE])
            ELSE AugmentingScan(n, i + 1, to_process, is_reached)

RECURSIVE AugmentingSearch(_, _)
AugmentingSearch(to_process, is_reached) ==
    IF to_process = <<>> THEN is_reached
    ELSE LET n == to_process[Len(to_process)]
             scanned == AugmentingScan(n, 1, SubSeq(to_process, 1, Len(to_process) - 1),
                                       is_reached)
         IN AugmentingSearch(scanned[1], scanned[2])

AugmentingPathExists ==
    AugmentingSearch(<<source_>>, [n \in Nodes |-> n = source_])[sink_]

CheckResult ==
    /\ node_excess_[source_] = Wrap(-node_excess_[sink_])
    /\ \A n \in Nodes : (n # source_ /\ n # sink_) => node_excess_[n] = 0
    /\ \A arc \in DirectArcs :
          /\ residual_arc_capacity_[arc] >= 0
          /\ residual_arc_capacity_[Opposite(arc)] >= 0
          /\ Wrap(residual_arc_capacity_[arc] + residual_arc_capacity_[Opposite(arc)]) >= 0
    /\ ~(GetOptimalFlow < kMaxFlowQuantity /\ AugmentingPathExists)

\* The inner for loop of ComputeReachableNodes<reverse> over the arcs of n
\* from position i: <<bfs_queue_, node_in_bfs_queue_>>.

GetSourceSideMinCut ==
    /\ pc = "idle"
    /\ last_call # "GetSourceSideMinCut"
    /\ bfs_queue_' = ComputeReachableNodes(FALSE, source_)[2]
    /\ node_in_bfs_queue_' = ComputeReachableNodes(FALSE, source_)[3]
    /\ last_call' = "GetSourceSideMinCut"
    /\ UNCHANGED <<graphVars, status_, flowVars, heightVars, queueVars, pc, it,
                   flow_pushed, refineVars, queue_index, dischargeVars, dfsVars, failed,
                   set_capacity, num_solves, num_edits, recordVars>>

\* Variant: the forward search of GetSourceSideMinCut, started at the sink.
GetSinkSideMinCutForward ==
    /\ pc = "idle"
    /\ last_call # "GetSinkSideMinCut"
    /\ bfs_queue_' = ComputeReachableNodes(FALSE, sink_)[2]
    /\ node_in_bfs_queue_' = ComputeReachableNodes(FALSE, sink_)[3]
    /\ last_call' = "GetSinkSideMinCut"
    /\ UNCHANGED <<graphVars, status_, flowVars, heightVars, queueVars, pc, it,
                   flow_pushed, refineVars, queue_index, dischargeVars, dfsVars, failed,
                   set_capacity, num_solves, num_edits, recordVars>>

GetSinkSideMinCut ==
    /\ pc = "idle"
    /\ last_call # "GetSinkSideMinCut"
    /\ bfs_queue_' = ComputeReachableNodes(TRUE, sink_)[2]
    /\ node_in_bfs_queue_' = ComputeReachableNodes(TRUE, sink_)[3]
    /\ last_call' = "GetSinkSideMinCut"
    /\ UNCHANGED <<graphVars, status_, flowVars, heightVars, queueVars, pc, it,
                   flow_pushed, refineVars, queue_index, dischargeVars, dfsVars, failed,
                   set_capacity, num_solves, num_edits, recordVars>>

----------------------------------------------------------------------------
(* Solve: the statements after RefineWithGlobalUpdate *)

\* Variant: INT_OVERFLOW whenever the flow reached kMaxFlowQuantity.
FinishStatusNoPathCheck ==
    IF GetOptimalFlow = kMaxFlowQuantity THEN INT_OVERFLOW ELSE OPTIMAL

\* status_ when Solve() returns.
FinishStatus ==
    IF GetOptimalFlow = kMaxFlowQuantity /\ AugmentingPathExists
    THEN INT_OVERFLOW ELSE OPTIMAL

Finish ==
    /\ pc = "Finish"
    /\ status_' = FinishStatus
    /\ failed' = failed \cup (IF CheckResult THEN {} ELSE {"Solve: DCHECK(CheckResult())"})
    /\ skip_active_node' = NoVector
    /\ num_skipped' = 0
    /\ pc' = "idle"
    /\ last_call' = "Solve"
    /\ UNCHANGED <<graphVars, flowVars, heightVars, queueVars, bfsVars, it, flow_pushed,
                   queue_index, dischargeVars, dfsVars, set_capacity,
                   num_solves, num_edits>>
    /\ results_in_a_row' =
          Append(results_in_a_row,
                 SolveResult(FinishStatus, node_excess_, residual_arc_capacity_))
    /\ flow_floor' = GetOptimalFlow
    /\ UNCHANGED <<pop_result, queue_use>>

----------------------------------------------------------------------------

Next ==
    \/ \E arc \in DirectArcs, new_capacity \in Capacities : SetArcCapacity(arc, new_capacity)
    \/ Solve
    \/ SaturatePush
    \/ SaturateStop
    \/ DoLoop
    \/ GlobalUpdateNextNode
    \/ GlobalUpdateArc
    \/ GlobalUpdateFinish
    \/ PopActiveNode
    \/ ActiveLoopEnd
    \/ DischargePush
    \/ DischargeRelabel
    \/ PushBack
    \/ DfsBacktrack
    \/ DfsVisit
    \/ DfsArc
    \/ DfsCancelArc
    \/ DfsCancelEnd
    \/ DfsEnd
    \/ ReturnNextNode
    \/ ReturnPush
    \/ ReturnEnd
    \/ Finish
    \/ GetSourceSideMinCut
    \/ GetSinkSideMinCut

Spec == Init /\ [][Next]_vars

\* The object before its last Solve(): constructed, the capacities given by
\* calls of SetArcCapacity, one more such call left.
FairInit ==
    /\ \E p \in Problems : \E c \in [0 .. (Len(p.arcs) - 1) -> Capacities] :
        /\ graph_ = [num_nodes |-> p.num_nodes, node_reservation |-> p.node_reservation,
                     arcs |-> p.arcs]
        /\ source_ = p.source
        /\ sink_ = p.sink
        /\ node_excess_ = [n \in 0 .. (p.node_reservation - 1) |-> 0]
        /\ node_potential_ = [n \in 0 .. (p.node_reservation - 1) |-> 0]
        /\ first_admissible_arc_ = [n \in 0 .. (p.node_reservation - 1) |-> kNilArc]
        /\ residual_arc_capacity_ =
              [a \in (-Len(p.arcs)) .. (Len(p.arcs) - 1) |-> IF a >= 0 THEN c[a] ELSE 0]
        /\ set_capacity = c
        /\ IF \A a \in DOMAIN c : c[a] = 0
           THEN status_ \in Status /\ last_call = "GenericMaxFlow"
           ELSE status_ = NOT_SOLVED /\ last_call = "SetArcCapacity"
    /\ even_queue_ = <<>> /\ odd_queue_ = <<>>
    /\ node_in_bfs_queue_ = NoVector /\ bfs_queue_ = <<>>
    /\ pc = "idle"
    /\ LocalsIdle
    /\ failed = {}
    /\ num_solves = MaxSolves - 1 /\ num_edits = MaxEdits - 1
    /\ results_in_a_row = <<>>
    /\ flow_floor = 0
    /\ pop_result = NoNode
    /\ queue_use = NoQueueUse

\* One step of a running Solve().
SolveStep ==
    \/ SaturatePush \/ SaturateStop \/ DoLoop
    \/ GlobalUpdateNextNode \/ GlobalUpdateArc \/ GlobalUpdateFinish
    \/ PopActiveNode \/ ActiveLoopEnd \/ DischargePush \/ DischargeRelabel
    \/ PushBack \/ DfsBacktrack \/ DfsVisit \/ DfsArc \/ DfsCancelArc \/ DfsCancelEnd
    \/ DfsEnd \/ ReturnNextNode \/ ReturnPush \/ ReturnEnd \/ Finish

\* Solve() is synchronous: once called it runs on until it returns.
FairSpec == FairInit /\ [][Next]_vars /\ WF_vars(SolveStep)

----------------------------------------------------------------------------
(* PriorityQueueWithRestrictedPush used on its own, by any caller *)

QueueElements == {0, 1}
Priorities == 0 .. MaxPriority

solverVars == <<graph_, source_, sink_, status_, node_excess_, node_potential_,
                residual_arc_capacity_, first_admissible_arc_, node_in_bfs_queue_,
                bfs_queue_, pc, it, flow_pushed, skip_active_node, num_skipped,
                queue_index, node, old_height, stored, visited, arc_stack,
                index_branch, reverse_topological_order, cycle, return_index,
                set_capacity, num_solves, num_edits, results_in_a_row, flow_floor>>

\* The highest priority among the pairs of a non-empty sequence.
HighestPriority(pairs) ==
    CHOOSE p \in {pairs[i][2] : i \in DOMAIN pairs} :
        \A i \in DOMAIN pairs : pairs[i][2] <= p

\* The position of the pair Pop() has to return: of the highest priority,
\* and the last one pushed among those.
DuePosition(pairs) ==
    CHOOSE i \in DOMAIN pairs :
        /\ pairs[i][2] = HighestPriority(pairs)
        /\ \A j \in DOMAIN pairs : pairs[j][2] = HighestPriority(pairs) => j <= i

RemoveAt(pairs, i) == SubSeq(pairs, 1, i - 1) \o SubSeq(pairs, i + 1, Len(pairs))

\* The queue of a debug build: a failed DCHECK ends the program, and after
\* a Pop() on an empty queue nothing is known of the object anyway.
QueueUsable == failed = {}

QueuePush(element, priority) ==
    /\ QueueUsable
    /\ Len(queue_use.present) < MaxQueueSize
    /\ even_queue_' = Push(even_queue_, odd_queue_, element, priority)[1]
    /\ odd_queue_' = Push(even_queue_, odd_queue_, element, priority)[2]
    /\ failed' = failed \cup PushFailures(even_queue_, odd_queue_, priority)
    /\ queue_use' =
          [present |-> Append(queue_use.present, <<element, priority>>),
           expected |-> queue_use.expected,
           contract_kept |->
               /\ queue_use.contract_kept
               /\ \/ queue_use.present = <<>>
                  \/ priority >= HighestPriority(queue_use.present) - 1]
    /\ last_call' = "Push"
    /\ UNCHANGED <<solverVars, pop_result>>

\* Pop(); on an empty queue PopBack() reads back() of an empty vector and
\* may return anything.
QueuePop ==
    /\ QueueUsable
    /\ failed' = failed \cup PopFailures(even_queue_, odd_queue_)
    /\ IF IsEmpty(even_queue_, odd_queue_)
       THEN /\ pop_result' \in QueueElements
            /\ queue_use' = [queue_use EXCEPT !.expected = <<pop_result', 0>>]
            /\ UNCHANGED queueVars
       ELSE /\ pop_result' = Pop(even_queue_, odd_queue_)[1]
            /\ even_queue_' = Pop(even_queue_, odd_queue_)[2]
            /\ odd_queue_' = Pop(even_queue_, odd_queue_)[3]
            /\ queue_use' =
                  [queue_use EXCEPT
                      !.present = RemoveAt(@, DuePosition(@)),
                      !.expected = queue_use.present[DuePosition(queue_use.present)]]
    /\ last_call' = "Pop"
    /\ UNCHANGED solverVars

QueueClear ==
    /\ QueueUsable
    /\ last_call # "Clear"
    /\ even_queue_' = <<>>
    /\ odd_queue_' = <<>>
    /\ queue_use' = [queue_use EXCEPT !.present = <<>>]
    /\ last_call' = "Clear"
    /\ UNCHANGED <<solverVars, failed, pop_result>>

\* A queue after construction; the solver around it stays as constructed.
QueueInit ==
    /\ Init
    /\ graph_.arcs = SourceOutside.arcs /\ source_ = SourceOutside.source
    /\ status_ = NOT_SOLVED

QueueNext ==
    \/ \E element \in QueueElements, priority \in Priorities : QueuePush(element, priority)
    \/ QueuePop
    \/ QueueClear

QueueSpec == QueueInit /\ [][QueueNext]_vars

(* The solver on the chain of five nodes.  The graph has no cycle, so the    *)
(* depth-first search of PushFlowExcessBackToSource never finds a flow      *)
(* cycle and the two steps that cancel one are never enabled.               *)

StealChainNext ==
    \/ \E arc \in DirectArcs, new_capacity \in Capacities : SetArcCapacity(arc, new_capacity)
    \/ Solve
    \/ SaturatePush
    \/ SaturateStop
    \/ DoLoop
    \/ GlobalUpdateNextNode
    \/ GlobalUpdateArc
    \/ GlobalUpdateFinish
    \/ PopActiveNode
    \/ ActiveLoopEnd
    \/ DischargePush
    \/ DischargeRelabel
    \/ PushBack
    \/ DfsBacktrack
    \/ DfsVisit
    \/ DfsArc
    \/ DfsEnd
    \/ ReturnNextNode
    \/ ReturnPush
    \/ ReturnEnd
    \/ Finish
    \/ GetSourceSideMinCut
    \/ GetSinkSideMinCut

StealChainSpec == Constructed(StealChain) /\ [][StealChainNext]_vars

\* The solver on the fork, another graph without a cycle: GlobalUpdate seeds
\* the active queue with two nodes of the same height, which then push into
\* the sink one after the other.
ForkSpec == Constructed(Fork) /\ [][StealChainNext]_vars

\* The solver on the chain with back arcs: no flow ever enters the arc into
\* the source or the arc out of the sink, so no flow cycle exists either.
BackArcsSpec == Constructed(BackArcs) /\ [][StealChainNext]_vars

----------------------------------------------------------------------------
TypeOK ==
    /\ status_ \in Status
    /\ pc \in {"idle", "Saturate", "DoLoop", "GlobalUpdate", "ActiveLoop", "Discharge",
               "PushBack", "Dfs", "Return", "Finish"}

----------------------------------------------------------------------------
(* Reference notions the properties are stated with *)

\* Solve() has just returned on a graph that holds source and sink.
SolveReturned ==
    /\ pc = "idle" /\ last_call = "Solve"
    /\ source_ < num_nodes /\ sink_ < num_nodes

RECURSIVE SumOver(_, _)
SumOver(S, f) ==
    IF S = {} THEN 0
    ELSE LET x == CHOOSE y \in S : TRUE IN f[x] + SumOver(S \ {x}, f)

\* The direct arcs that leave the node set S.
ArcsLeaving(S) == {a \in DirectArcs : ArcTail(a) \in S /\ ArcHead(a) \notin S}

\* Capacity, as given to SetArcCapacity, of the cut (S, complement of S).
CutCapacity(S) == SumOver(ArcsLeaving(S), set_capacity)

SourceSinkCuts == {S \in SUBSET Nodes : source_ \in S /\ sink_ \notin S}

\* The value of a maximum flow, as the capacity of a minimum cut, computed
\* on unbounded integers.
TrueMaxFlow ==
    LET values == {CutCapacity(S) : S \in SourceSinkCuts}
    IN CHOOSE v \in values : \A w \in values : v <= w

\* Nodes reachable from start along arcs of positive residual capacity
\* (backwards: nodes that reach start).
RECURSIVE ResidualClosure(_, _)
ResidualClosure(S, backwards) ==
    LET more == {n \in Nodes \ S : \E a \in AllArcs :
                    /\ residual_arc_capacity_[a] > 0
                    /\ IF backwards THEN ArcTail(a) = n /\ ArcHead(a) \in S
                       ELSE ArcTail(a) \in S /\ ArcHead(a) = n}
    IN IF more = {} THEN S ELSE ResidualClosure(S \cup more, backwards)

Range(seq) == {seq[i] : i \in 1 .. Len(seq)}

\* A Solve() has returned and nothing changed the problem since.
Solved ==
    /\ pc = "idle" /\ num_solves > 0
    /\ status_ \in {OPTIMAL, INT_OVERFLOW}

SourceOutCapacity ==
    SumOver({a \in DirectArcs : ArcTail(a) = source_}, set_capacity)

SourceSideMinCut == Range(ComputeReachableNodes(FALSE, source_)[1])
SinkSideMinCut == Range(ComputeReachableNodes(TRUE, sink_)[1])

CapacityOfArcs == [a \in DirectArcs |-> Capacity(a)]

----------------------------------------------------------------------------
(* Properties *)

\* C1: when the maximum flow value (the capacity of a minimum cut) is at most
\* kMaxFlowQuantity, Solve() returns with GetOptimalFlow() equal to it and
\* with status OPTIMAL, also when the capacities of the arcs leaving the
\* source sum to more than kMaxFlowQuantity.
C1_OptimalFlowIsMaxFlow ==
    /\ (SolveReturned /\ TrueMaxFlow <= kMaxFlowQuantity)
          => (GetOptimalFlow = TrueMaxFlow /\ status_ = OPTIMAL)
    \* source or sink outside the graph: no flow at all
    /\ (pc = "idle" /\ last_call = "Solve" /\ ~SolveReturned)
          => (GetOptimalFlow = 0 /\ status_ = OPTIMAL)

C1_Witness ==
    /\ SolveReturned
    /\ SourceOutCapacity > kMaxFlowQuantity
    /\ TrueMaxFlow <= kMaxFlowQuantity
    /\ GetOptimalFlow = TrueMaxFlow
    /\ GetOptimalFlow >= 2

\* C2: when Solve() returns with status OPTIMAL no path of arcs with positive
\* residual capacity leads from the source to the sink; such a path remains
\* only with status INT_OVERFLOW.
C2_NoAugmentingPathWhenOptimal ==
    SolveReturned =>
        /\ status_ \in {OPTIMAL, INT_OVERFLOW}
        /\ status_ = OPTIMAL =>
              (~AugmentingPathExists /\ sink_ \notin ResidualClosure({source_}, FALSE))

C2_Witness ==
    /\ SolveReturned /\ status_ = OPTIMAL
    /\ GetOptimalFlow > 0
    /\ \E a \in DirectArcs : Flow(a) > 0 /\ residual_arc_capacity_[a] > 0

\* C3: when Solve() returns the result is a flow: no excess is left at a node
\* other than source and sink, the excess of the source is minus that of the
\* sink, and the three assertions on it never fail.
C3_Assertions ==
    {"Solve: DCHECK(CheckResult())",
     "PushFlowExcessBackToSource: DCHECK_EQ(0, node_excess_[node])",
     "PushFlowExcessBackToSource: DCHECK_EQ(-node_excess_[source_], node_excess_[sink_])"}

C3_ResultIsFlow ==
    /\ failed \cap C3_Assertions = {}
    /\ (pc = "idle" /\ last_call = "Solve") =>
          /\ \A n \in ReservedNodes \ {source_, sink_} : node_excess_[n] = 0
          /\ node_excess_[source_] = -node_excess_[sink_]

C3_Witness ==
    /\ SolveReturned
    /\ node_excess_[sink_] > 0
    /\ \E a \in DirectArcs : ArcTail(a) = source_ /\ Flow(a) > 0
                             /\ residual_arc_capacity_[a] > 0

\* C4: in every state, inside and outside Solve(), every residual capacity is
\* nonnegative, so that 0 <= Flow(a) <= Capacity(a) on every direct arc.
C4_ResidualNonNegative ==
    /\ \A a \in AllArcs : residual_arc_capacity_[a] >= 0
    /\ \A a \in DirectArcs : 0 <= Flow(a) /\ Flow(a) <= Capacity(a)

C4_Witness ==
    /\ pc = "Dfs" /\ cycle # NoCycle
    /\ cycle.i < Len(index_branch) - 1
    /\ \A a \in AllArcs : residual_arc_capacity_[a] >= 0

\* C5: the capacity of every direct arc always equals the capacity last given
\* to SetArcCapacity for that arc (0 if none): no step of Solve() changes it.
C5_CapacityPreserved ==
    \A a \in DirectArcs : Capacity(a) = set_capacity[a]

C5_Witness ==
    /\ pc = "Return" /\ num_solves = 2
    /\ \E a \in DirectArcs : Flow(a) > 0 /\ residual_arc_capacity_[a] > 0
    /\ \A a \in DirectArcs : Capacity(a) = set_capacity[a]

\* The node set S holds the source and not the sink, every direct arc leaving
\* it is saturated and every direct arc entering it carries no flow.
IsSaturatedSourceSide(S) ==
    /\ source_ \in S
    /\ sink_ \notin S
    /\ \A a \in DirectArcs :
          /\ (ArcTail(a) \in S /\ ArcHead(a) \notin S) => Flow(a) = Capacity(a)
          /\ (ArcTail(a) \notin S /\ ArcHead(a) \in S) => Flow(a) = 0

\* C6: after Solve() returned with status OPTIMAL on a graph holding source
\* and sink, GetSourceSideMinCut returns a set with the source and without
\* the sink whose leaving arcs are saturated and whose entering arcs are empty.
C6_SourceSideMinCut ==
    (Solved /\ status_ = OPTIMAL /\ source_ < num_nodes /\ sink_ < num_nodes) =>
        /\ IsSaturatedSourceSide(SourceSideMinCut)
        /\ last_call = "GetSourceSideMinCut" => Range(bfs_queue_) = SourceSideMinCut

C6_Witness ==
    /\ Solved /\ status_ = OPTIMAL /\ source_ < num_nodes /\ sink_ < num_nodes
    /\ last_call = "GetSourceSideMinCut"
    /\ Len(bfs_queue_) >= 2
    /\ IsSaturatedSourceSide(Range(bfs_queue_))
    /\ GetOptimalFlow > 0

\* C7: after Solve() returned with status OPTIMAL, GetOptimalFlow() is the sum
\* of the capacities of the direct arcs leaving the source-side min cut.
C7_CutFlowDuality ==
    (Solved /\ status_ = OPTIMAL) =>
        GetOptimalFlow = SumOver(ArcsLeaving(SourceSideMinCut), CapacityOfArcs)

C7_Witness ==
    /\ Solved /\ status_ = OPTIMAL /\ last_call = "Solve"
    /\ Cardinality(ArcsLeaving(SourceSideMinCut)) >= 2
    /\ GetOptimalFlow = SumOver(ArcsLeaving(SourceSideMinCut), CapacityOfArcs)
    /\ GetOptimalFlow >= 2

\* The direct arcs that enter the node set S.
ArcsEntering(S) == {a \in DirectArcs : ArcTail(a) \notin S /\ ArcHead(a) \in S}

\* C8: GetSinkSideMinCut returns exactly the nodes from which the sink is
\* reachable along arcs of positive residual capacity; after Solve() returned
\* with status OPTIMAL this set holds the sink, not the source, is disjoint
\* from the source-side cut, and the direct arcs entering it are saturated
\* with capacities summing to GetOptimalFlow().
C8_SinkSideMinCut ==
    pc = "idle" =>
        /\ SinkSideMinCut = ResidualClosure({sink_}, TRUE)
        /\ last_call = "GetSinkSideMinCut" /\ sink_ < num_nodes
              => Range(bfs_queue_) = SinkSideMinCut
        /\ (Solved /\ status_ = OPTIMAL) =>
              /\ sink_ \in SinkSideMinCut
              /\ source_ \notin SinkSideMinCut
              /\ SinkSideMinCut \cap SourceSideMinCut = {}
              /\ \A a \in ArcsEntering(SinkSideMinCut) : Flow(a) = Capacity(a)
              /\ SumOver(ArcsEntering(SinkSideMinCut), CapacityOfArcs) = GetOptimalFlow

C8_Witness ==
    /\ Solved /\ status_ = OPTIMAL /\ last_call = "GetSinkSideMinCut"
    /\ Len(bfs_queue_) >= 2
    /\ Range(bfs_queue_) = ResidualClosure({sink_}, TRUE)
    /\ GetOptimalFlow > 0

\* Net flow leaving node n on the direct arcs.
NetOutFlow(n) ==
    SumOver({a \in DirectArcs : ArcTail(a) = n}, [a \in DirectArcs |-> Flow(a)])
    - SumOver({a \in DirectArcs : ArcHead(a) = n}, [a \in DirectArcs |-> Flow(a)])

\* The arc flows are a feasible flow of the given value for the capacities
\* given to SetArcCapacity.
IsFeasibleFlowOfValue(value) ==
    /\ \A a \in DirectArcs : 0 <= Flow(a) /\ Flow(a) <= set_capacity[a]
    /\ \A n \in Nodes \ {source_, sink_} : NetOutFlow(n) = 0
    /\ NetOutFlow(source_) = value
    /\ NetOutFlow(sink_) = -value

\* C9: Solve() ends with status INT_OVERFLOW exactly when the maximum flow
\* value exceeds kMaxFlowQuantity, then with GetOptimalFlow() =
\* kMaxFlowQuantity and a feasible flow of that value; otherwise with OPTIMAL.
C9_OverflowStatus ==
    /\ SolveReturned =>
          /\ status_ = IF TrueMaxFlow > kMaxFlowQuantity THEN INT_OVERFLOW ELSE OPTIMAL
          /\ status_ = INT_OVERFLOW =>
                (GetOptimalFlow = kMaxFlowQuantity
                 /\ IsFeasibleFlowOfValue(kMaxFlowQuantity))
    /\ (pc = "idle" /\ last_call = "Solve" /\ ~SolveReturned) => status_ = OPTIMAL

C9_Witness ==
    /\ SolveReturned /\ status_ = INT_OVERFLOW
    /\ TrueMaxFlow > kMaxFlowQuantity
    /\ GetOptimalFlow = kMaxFlowQuantity

\* C10: every call of Solve() returns.
C10_SolveTerminates == (pc # "idle") ~> (pc = "idle")

C10_Witness ==
    /\ pc = "Saturate" /\ it = 1
    /\ node_excess_[sink_] > 0
    /\ SourceOutCapacity > kMaxFlowQuantity
    /\ \E a \in DirectArcs : ArcTail(a) = source_ /\ SourceArcAdmissible(a)

\* C11: with the source or the sink outside the graph (inside the node
\* reservation) Solve() returns at once with status OPTIMAL, an optimal flow
\* of 0 and no flow on any arc: no source arc is saturated and no node is
\* discharged, Solve() never leaves its first statements.
C11_OutsideGraphIsDisconnected ==
    (source_ >= num_nodes \/ sink_ >= num_nodes) =>
        /\ pc = "idle"
        /\ even_queue_ = <<>> /\ odd_queue_ = <<>>
        /\ last_call = "Solve" =>
              /\ status_ = OPTIMAL
              /\ GetOptimalFlow = 0
              /\ \A a \in AllArcs : Flow(a) = 0
              /\ \A a \in DirectArcs : residual_arc_capacity_[a] = set_capacity[a]
              /\ \A n \in ReservedNodes : node_excess_[n] = 0

C11_Witness ==
    /\ pc = "idle" /\ last_call = "Solve"
    /\ sink_ >= num_nodes /\ source_ < num_nodes
    /\ status_ = OPTIMAL /\ GetOptimalFlow = 0
    /\ \E a \in DirectArcs : ArcTail(a) = source_ /\ residual_arc_capacity_[a] > 0

\* C12: from construction until the first Solve(), status() is NOT_SOLVED,
\* whatever SetArcCapacity calls were made in between (none, or only calls
\* that give an arc the capacity it already has).  The constructor leaves
\* status_ without a value, so this is the statement the code does not keep.
C12_NotSolvedBeforeFirstSolve ==
    num_solves = 0 => status_ = NOT_SOLVED

\* C12: a solver on which Solve() was never called and whose status is read
\* after construction, or after a SetArcCapacity that changed nothing.
C12_Witness ==
    /\ num_solves = 0
    /\ last_call = "SetArcCapacity"
    /\ \A a \in DirectArcs : set_capacity[a] = 0

\* C13: a SetArcCapacity(a, c) with c different from Capacity(a) sets the
\* status to NOT_SOLVED, and a status of NOT_SOLVED only ends inside Solve();
\* hence no step that changes the capacity of an arc leaves the status at
\* OPTIMAL or INT_OVERFLOW, and such a status means that no capacity changed
\* since it was produced.
C13_CapacityChangeInvalidates ==
    [][ /\ (\E a \in DirectArcs : Capacity(a)' # Capacity(a)) => status_' = NOT_SOLVED
        /\ (\E a \in DirectArcs : set_capacity'[a] # set_capacity[a]) => status_' = NOT_SOLVED
        /\ (status_ = NOT_SOLVED /\ status_' # NOT_SOLVED) =>
              \/ pc # "idle"
              \/ pc = "idle" /\ last_call' = "Solve" /\ num_solves' = num_solves + 1
      ]_vars

\* C13: a solved instance on which SetArcCapacity changed a capacity.
C13_Witness ==
    /\ pc = "idle" /\ num_solves > 0 /\ last_call = "SetArcCapacity"
    /\ status_ = NOT_SOLVED
    /\ \E a \in DirectArcs : Flow(a) > 0

\* C14: SetArcCapacity(a, c) with c = Capacity(a) changes nothing: every
\* residual capacity, every node excess, every height and the status (also
\* OPTIMAL and INT_OVERFLOW) are as before the call.
C14_SameCapacityIsNoOp ==
    [][ \A a \in DirectArcs : \A c \in Capacities :
          (c = Capacity(a) /\ SetArcCapacity(a, c)) =>
              UNCHANGED <<residual_arc_capacity_, node_excess_, node_potential_,
                          first_admissible_arc_, status_>>
      ]_vars

\* C14: a solved instance with flow whose status is still OPTIMAL after a
\* SetArcCapacity call, which therefore gave an arc the capacity it had.
C14_Witness ==
    /\ pc = "idle" /\ num_solves > 0 /\ last_call = "SetArcCapacity"
    /\ status_ = OPTIMAL
    /\ GetOptimalFlow > 0

\* C15: SetArcCapacity(a, c) with c # Capacity(a) and
\* res_cap[a] + (c - Capacity(a)) >= 0 (the same as Flow(a) <= c, true of
\* every increase) keeps Flow(a), makes Capacity(a) = c, and changes neither
\* the residual capacity of another arc nor the excess of a node.
C15_CapacityChangeKeepsFlow ==
    [][ \A a \in DirectArcs : \A c \in Capacities :
          LET fits == residual_arc_capacity_[a] + (c - Capacity(a)) >= 0
          IN /\ fits <=> Flow(a) <= c
             /\ c > Capacity(a) => fits
             /\ (c # Capacity(a) /\ fits /\ SetArcCapacity(a, c)) =>
                   /\ Flow(a)' = Flow(a)
                   /\ Capacity(a)' = c
                   /\ \A b \in AllArcs \ {a} :
                         residual_arc_capacity_'[b] = residual_arc_capacity_[b]
                   /\ UNCHANGED node_excess_
      ]_vars

\* C15: the capacity of an arc that carries flow was changed, to a value not
\* below that flow, and the flow is still there.
C15_Witness ==
    /\ pc = "idle" /\ num_solves > 0 /\ last_call = "SetArcCapacity"
    /\ status_ = NOT_SOLVED
    /\ \A n \in Nodes \ {source_, sink_} : NetOutFlow(n) = 0
    /\ GetOptimalFlow > 0
    /\ \E a \in DirectArcs : Flow(a) > 0 /\ Flow(a) = Capacity(a)
    /\ \E a \in DirectArcs : Flow(a) > 0 /\ Flow(a) < Capacity(a)

\* C16: SetArcCapacity(a, c) on an arc whose flow exceeds c
\* (res_cap[a] + (c - Capacity(a)) < 0) sets res_cap[a] = c and
\* res_cap[Opposite(a)] = 0, so Flow(a) = 0 and Capacity(a) = c afterwards;
\* the node excesses, like the other arcs, are left as they were.
C16_CapacityBelowFlowClearsFlow ==
    [][ \A a \in DirectArcs : \A c \in Capacities :
          (/\ residual_arc_capacity_[a] + (c - Capacity(a)) < 0
           /\ SetArcCapacity(a, c)) =>
              /\ Flow(a) > c
              /\ residual_arc_capacity_'[a] = c
              /\ residual_arc_capacity_'[Opposite(a)] = 0
              /\ Flow(a)' = 0
              /\ Capacity(a)' = c
              /\ \A b \in AllArcs \ {a, Opposite(a)} :
                    residual_arc_capacity_'[b] = residual_arc_capacity_[b]
              /\ UNCHANGED node_excess_
      ]_vars

\* C16: the flow of an arc was cleared on a solved instance: the excesses
\* are those of the last Solve() and no longer those of the flow.
C16_Witness ==
    /\ pc = "idle" /\ num_solves > 0 /\ last_call = "SetArcCapacity"
    /\ \E n \in Nodes \ {source_, sink_} : NetOutFlow(n) # 0 /\ node_excess_[n] = 0

\* C17: a Solve() that follows another Solve() with no SetArcCapacity in
\* between returns the same result: the same status, optimal flow, residual
\* capacity of every arc, node excesses and source-side and sink-side cuts.
\* What the earlier Solve() and the cut queries left behind has no influence.
C17_SolveIsIdempotent ==
    /\ Len(results_in_a_row) <= 2
    /\ Len(results_in_a_row) = 2 => results_in_a_row[2] = results_in_a_row[1]
    /\ (pc = "idle" /\ last_call = "Solve") =>
          /\ results_in_a_row # <<>>
          /\ results_in_a_row[Len(results_in_a_row)] =
                SolveResult(status_, node_excess_, residual_arc_capacity_)

\* C17: the second Solve() in a row has returned, with flow and with a cut
\* that is not the whole graph.
C17_Witness ==
    /\ pc = "idle" /\ last_call = "Solve"
    /\ Len(results_in_a_row) = 2
    /\ results_in_a_row[2].optimal_flow > 0
    /\ Len(results_in_a_row[2].source_side_min_cut) > 1
    /\ node_potential_[sink_] = 0 /\ \E n \in Nodes : node_potential_[n] > num_nodes

\* The value of a maximum flow under the capacities c, cut off at
\* kMaxFlowQuantity.
MaxFlowUnder(c) ==
    LET values == {SumOver(ArcsLeaving(S), c) : S \in SourceSinkCuts}
    IN Min(CHOOSE v \in values : \A w \in values : v <= w, kMaxFlowQuantity)

\* C18: raising the capacity of one arc never lowers GetOptimalFlow(): the
\* flow of a Solve() under capacities c' is at least the flow of a Solve()
\* under capacities c that differ from c' only by a smaller capacity on one
\* arc, and a Solve() that follows a SetArcCapacity raising a capacity of a
\* solved instance gives at least the flow of the Solve() before.
C18_CapacityMonotone ==
    /\ pc = "Finish" => GetOptimalFlow >= flow_floor
    /\ (pc = "idle" /\ last_call = "Solve") => flow_floor = GetOptimalFlow
    /\ SolveReturned =>
          /\ GetOptimalFlow = MaxFlowUnder(set_capacity)
          /\ \A a \in DirectArcs : \A c \in Capacities :
                c < set_capacity[a] =>
                    MaxFlowUnder([set_capacity EXCEPT ![a] = c]) <= GetOptimalFlow

\* C18: a Solve() of an instance that was solved before and then had a
\* capacity raised is about to return, with more flow than before.
C18_Witness ==
    /\ pc = "Finish" /\ num_solves > 1
    /\ flow_floor > 0
    /\ GetOptimalFlow > flow_floor
    /\ results_in_a_row = <<>>

\* How often the pair x occurs in the sequence pairs.
Occurrences(pairs, x) == Cardinality({i \in DOMAIN pairs : pairs[i] = x})

\* C19: as long as every Push(e, p) had p >= (highest priority in the
\* queue) - 1, whatever the interleaving of Push, Pop and Clear, a Pop() on a
\* non-empty queue removes and returns an element of the highest priority
\* present, the most recently pushed one among those; IsEmpty() holds
\* exactly when every element pushed since the last Clear() was popped.
C19_PopReturnsHighestLifo ==
    "Pop: DCHECK(!IsEmpty())" \notin failed =>
        /\ IsEmpty(even_queue_, odd_queue_) <=> queue_use.present = <<>>
        /\ queue_use.contract_kept =>
              /\ last_call = "Pop" => pop_result = queue_use.expected[1]
              /\ \A e \in QueueElements : \A p \in Priorities :
                    Occurrences(even_queue_ \o odd_queue_, <<e, p>>)
                        = Occurrences(queue_use.present, <<e, p>>)

\* C19: a Pop() had to choose between two vectors and between two elements
\* of the highest priority, of which it left the one pushed first.
C19_Witness ==
    /\ last_call = "Pop" /\ queue_use.contract_kept /\ failed = {}
    /\ pop_result = queue_use.expected[1]
    /\ even_queue_ # <<>> /\ odd_queue_ # <<>>
    /\ \E i \in DOMAIN queue_use.present :
          /\ queue_use.present[i][2] = queue_use.expected[2]
          /\ queue_use.present[i][1] # queue_use.expected[1]

\* C20: in a queue on which no assertion failed so far, Push(e, p) with
\* p < (highest priority in the queue) - 1 fails an assertion of Push and
\* Push(e, p) with p >= highest - 1 (or on an empty queue) fails none of the
\* four; Pop() on an empty queue fails its assertion, on a non-empty one not.
C20_AssertionsMatchPrecondition ==
    [][ /\ \A e \in QueueElements : \A p \in Priorities :
              (failed = {} /\ QueuePush(e, p)) =>
                  IF /\ queue_use.present # <<>>
                     /\ p < HighestPriority(queue_use.present) - 1
                  THEN failed' # {}
                  ELSE failed' = {}
        /\ (QueuePop /\ queue_use.present = <<>>) =>
              "Pop: DCHECK(!IsEmpty())" \in failed'
        /\ (failed = {} /\ QueuePop /\ queue_use.present # <<>>) => failed' = {}
      ]_vars

\* C20: a Push of a priority below the allowed one, and of the parity of
\* the vector that was empty, has run into an assertion of Push.
C20_Witness ==
    /\ last_call = "Push"
    /\ ~queue_use.contract_kept
    /\ failed = {"Push: DCHECK(priority >= odd_queue_.back().second - 1)"}
    /\ Len(even_queue_) = 1 /\ Len(odd_queue_) > 1

\* The excesses the claim allows: the source holds minus the flow it sent,
\* every other node what it received and has not passed on.
ExcessWithinQuantity ==
    \A n \in Nodes :
        IF n = source_
        THEN 0 <= -node_excess_[n] /\ -node_excess_[n] <= kMaxFlowQuantity
        ELSE 0 <= node_excess_[n] /\ node_excess_[n] <= kMaxFlowQuantity

\* C21: at every step of Solve, outside the cancellation of a flow cycle,
\* 0 <= -excess[source] <= kMaxFlowQuantity and 0 <= excess[v] <=
\* kMaxFlowQuantity for every other node; no FlowQuantity computation leaves
\* the signed range, even when the capacities out of the source sum to more
\* than kMaxFlowQuantity; SaturateOutgoingArcsFromSource pushes on an arc
\* exactly min(residual capacity, kMaxFlowQuantity - (-excess[source])).
C21_ExcessStaysWithinMaxFlowQuantity ==
    [][/\ "signed overflow" \notin failed'
       /\ cycle = NoCycle => ExcessWithinQuantity
       /\ cycle' = NoCycle => ExcessWithinQuantity'
       /\ SaturatePush =>
             LET arc == OutgoingArcs(source_)[SaturateNextArc]
                 pushed == Min(residual_arc_capacity_[arc],
                               kMaxFlowQuantity - (-node_excess_[source_]))
             IN /\ node_excess_'[source_] = node_excess_[source_] - pushed
                /\ node_excess_'[ArcHead(arc)] = node_excess_[ArcHead(arc)] + pushed
                /\ residual_arc_capacity_'[arc] = residual_arc_capacity_[arc] - pushed]_vars

\* The source could send more than kMaxFlowQuantity and the solver stopped at
\* the ceiling with an arc out of the source left unsaturated.
C21_Witness ==
    /\ pc = "Finish"
    /\ SourceOutCapacity > kMaxFlowQuantity
    /\ -node_excess_[source_] = kMaxFlowQuantity
    /\ \E arc \in 1 .. Len(OutgoingArcs(source_)) :
          residual_arc_capacity_[OutgoingArcs(source_)[arc]] > 0

\* The discharge phase: after a GlobalUpdate, while RefineWithGlobalUpdate pops
\* active nodes and Discharge pushes and relabels.
DischargePhase == pc \in {"ActiveLoop", "Discharge"}

ResidualArcs == {a \in AllArcs : residual_arc_capacity_[a] > 0}

HeightValidOn(arc) == node_potential_[ArcTail(arc)] <= node_potential_[ArcHead(arc)] + 1

\* The height GlobalUpdate gives to the nodes its search did not reach.
UnreachedHeight == 2 * num_nodes - 1

C23_SourceAndSinkHeightsFixed ==
    pc # "idle" =>
        /\ node_potential_[source_] = num_nodes
        /\ node_potential_[sink_] = 0
        /\ pc = "Discharge" => node # source_ /\ node # sink_

\* The sink sits in the queue of active nodes, about to be popped, and some
\* node has already been relabelled above the source.
C23_Witness ==
    /\ pc = "ActiveLoop"
    /\ \E i \in 1 .. Len(even_queue_) : even_queue_[i][1] = sink_
    /\ \E n \in Nodes : node_potential_[n] > num_nodes

\* C24 (as claimed): in every state reached during Solve every height is at
\* most 2 * num_nodes - 1, also after Relabel of a node whose only residual
\* neighbours were marked unreachable by GlobalUpdate.
C24_HeightsBelowTwiceNodes ==
    pc # "idle" => \A n \in Nodes : node_potential_[n] <= 2 * num_nodes - 1

\* C24 (amended): GlobalUpdate never assigns a height greater than
\* 2 * num_nodes - 1 and leaves every height at most 2 * num_nodes - 1 when it
\* ends; Relabel assigns the smallest height of a residual neighbour plus one,
\* which exceeds 2 * num_nodes - 1 exactly when every residual neighbour of
\* the node stands at 2 * num_nodes - 1 or more.
C24_OnlyRelabelReachesTwiceNodes ==
    [][/\ pc = "GlobalUpdate" =>
             \A n \in Nodes : node_potential_'[n] # node_potential_[n]
                               => node_potential_'[n] <= UnreachedHeight
       /\ pc = "GlobalUpdate" /\ pc' = "ActiveLoop" =>
             \A n \in Nodes : node_potential_'[n] <= UnreachedHeight
       /\ pc = "Discharge" =>
             /\ \A n \in Nodes \ {node} : node_potential_'[n] = node_potential_[n]
             /\ node_potential_'[node] # node_potential_[node] =>
                   /\ \E a \in ResidualArcs :
                         /\ ArcTail(a) = node
                         /\ node_potential_'[node] = node_potential_[ArcHead(a)] + 1
                   /\ \A a \in ResidualArcs :
                         ArcTail(a) = node =>
                            node_potential_'[node] <= node_potential_[ArcHead(a)] + 1]_vars

\* Relabel has lifted a node to 2 * num_nodes, above the nodes that
\* GlobalUpdate marked unreachable.
C24_Witness ==
    /\ DischargePhase
    /\ \E n \in Nodes : node_potential_[n] = 2 * num_nodes
    /\ \E n \in Nodes : node_potential_[n] = UnreachedHeight

\* C25: in every state reached during Solve every height is at most
\* 2 * num_nodes: Relabel of a node whose residual neighbours stand at
\* 2 * num_nodes - 1 or more never gives a height above 2 * num_nodes.
C25_HeightsAtMostTwiceNodes ==
    \A n \in Nodes : node_potential_[n] <= 2 * num_nodes

\* Discharge has just relabelled a node whose only residual neighbour had
\* itself been relabelled to 2 * num_nodes.
C25_Witness ==
    /\ pc = "ActiveLoop"
    /\ \E n \in Nodes \ {source_, sink_} :
          /\ node_excess_[n] > 0
          /\ \E a \in ResidualArcs : ArcTail(a) = n
          /\ \A a \in ResidualArcs :
                ArcTail(a) = n =>
                   /\ node_potential_[ArcHead(a)] = 2 * num_nodes
                   /\ node_potential_[n] = node_potential_[ArcHead(a)] + 1

\* C26: between two consecutive GlobalUpdate calls no height decreases: the
\* Relabel that Discharge executes keeps the height of its node or raises it,
\* and no other step changes a height.
C26_HeightsNeverDecreaseBetweenGlobalUpdates ==
    [][pc \notin {"idle", "GlobalUpdate"} =>
          /\ \A n \in Nodes : node_potential_'[n] >= node_potential_[n]
          /\ \A n \in Nodes :
                node_potential_'[n] # node_potential_[n] => pc = "Discharge" /\ n = node]_vars

\* Discharge has raised its node by more than one, after it had done so for
\* another node since the last GlobalUpdate.
C26_Witness ==
    /\ pc = "Discharge"
    /\ node_potential_[node] > old_height + 1
    /\ \E n \in Nodes \ {node} : skip_active_node[n] = 1

\* The nodes with a path of residual arcs to the sink.
CanReachSink == ResidualClosure({sink_}, TRUE)

\* The nodes with a path of residual arcs to a node of S that does not pass
\* through the source.
RECURSIVE ReachAvoidingSource(_)
ReachAvoidingSource(S) ==
    LET more == {n \in Nodes \ (S \cup {source_}) : \E a \in ResidualArcs :
                    ArcTail(a) = n /\ ArcHead(a) \in S}
    IN IF more = {} THEN S ELSE ReachAvoidingSource(S \cup more)

\* while (!IsEmptyActiveNodeContainer()) has just ended.
DischargeLoopEnded == pc = "ActiveLoop" /\ IsEmpty(even_queue_, odd_queue_)

\* The flow out of the source has not reached the ceiling: the source arcs
\* were saturated without capping.
SourceBelowCeiling == -node_excess_[source_] < kMaxFlowQuantity

\* The value Solve() ends with (C1).
FinalFlowValue == Min(TrueMaxFlow, kMaxFlowQuantity)

C28_Assertions ==
    {"SaturateOutgoingArcsFromSource: DCHECK_GE(current_flow_out_of_source, 0)",
     "SaturateOutgoingArcsFromSource: DCHECK_LE(node_excess_[source_], 0)"}

\* C28: at every step of Solve outside the cancellation of a flow cycle the
\* excess of the source is <= 0 and the excess of every other node is >= 0;
\* the assertions DCHECK_GE(current_flow_out_of_source, 0) and
\* DCHECK_LE(node_excess_[source_], 0) never fail.
C28_ExcessSigns ==
    /\ failed \cap C28_Assertions = {}
    /\ cycle = NoCycle =>
          /\ node_excess_[source_] <= 0
          /\ \A v \in Nodes \ {source_} : node_excess_[v] >= 0

\* A second call of SaturateOutgoingArcsFromSource, made after excess was
\* returned to the source, has pushed flow and is about to look at the next
\* arc.
C28_Witness ==
    /\ pc = "Saturate" /\ flow_pushed
    /\ node_excess_[sink_] > 0
    /\ node_excess_[source_] < -node_excess_[sink_]

\* C29: from the end of InitializePreflow to the end of Solve, after every
\* single push, of a positive or a negative amount, the excess of every node
\* is the flow on the direct arcs into it minus the flow on the direct arcs
\* out of it, and the excesses sum to 0.
C29_ExcessIsNetInflow ==
    pc # "idle" =>
        /\ \A v \in Nodes : node_excess_[v] = -NetOutFlow(v)
        /\ SumOver(Nodes, node_excess_) = 0

\* A negative amount has just been pushed on the arc that closes a flow
\* cycle, the other arcs of the cycle still carry their flow.
C29_Witness ==
    /\ pc = "Dfs" /\ cycle # NoCycle
    /\ cycle.i = Len(index_branch) - 1
    /\ cycle.max_flow > 0

\* A step of SaturateOutgoingArcsFromSource has pushed a positive amount out
\* of the source.
SaturateStepPushed == node_excess_'[source_] < node_excess_[source_]

\* C30: SaturateOutgoingArcsFromSource returns true if and only if that call
\* pushed a positive amount of flow on at least one arc leaving the source; it
\* pushes only on arcs with residual capacity > 0 whose head has a height
\* below num_nodes; it returns false without pushing when on entry the excess
\* of the sink is kMaxFlowQuantity or that of the source -kMaxFlowQuantity.
\* (flow_pushed is shown to record the pushes of the call so far, and the
\* value returned is read from the step that leaves the function.)
C30_SaturateReturnsWhetherItPushed ==
    [][/\ pc # "Saturate" /\ pc' = "Saturate" => ~flow_pushed'
       /\ pc = "Saturate" =>
             /\ pc' = "Saturate" => (flow_pushed' <=> (flow_pushed \/ SaturateStepPushed))
             /\ pc' \in {"DoLoop", "Finish"}
                \/ (pc' = "Saturate" /\ SaturateStepPushed)
             /\ pc' = "DoLoop" <=> (pc' # "Saturate" /\ (flow_pushed \/ SaturateStepPushed))
             /\ node_excess_'[source_] <= node_excess_[source_]
             /\ \A a \in AllArcs :
                   residual_arc_capacity_'[a] < residual_arc_capacity_[a] =>
                      /\ a \in DirectArcs /\ ArcTail(a) = source_
                      /\ residual_arc_capacity_[a] > 0
                      /\ node_potential_[ArcHead(a)] < num_nodes
                      /\ SaturateStepPushed
             /\ SaturateStepPushed =>
                   \E a \in DirectArcs :
                       residual_arc_capacity_'[a] < residual_arc_capacity_[a]
             /\ (it = 1 /\ ~flow_pushed
                     /\ (node_excess_[sink_] = kMaxFlowQuantity
                         \/ node_excess_[source_] = -kMaxFlowQuantity)) =>
                   pc' = "Finish" /\ UNCHANGED flowVars]_vars

\* A call has returned false on entry: the sink holds kMaxFlowQuantity while
\* an arc out of the source still has residual capacity towards a node
\* below num_nodes.
C30_Witness ==
    /\ pc = "Finish"
    /\ node_excess_[sink_] = kMaxFlowQuantity
    /\ \E i \in 1 .. Len(OutgoingArcs(source_)) :
          SourceArcAdmissible(OutgoingArcs(source_)[i])

\* Number of arcs of a shortest residual path from v to the sink that does
\* not pass through the source, -1 when there is none: the layers of nodes
\* around `reached` are added one distance at a time.
RECURSIVE SinkDistanceFrom(_, _, _)
SinkDistanceFrom(v, reached, d) ==
    IF v \in reached THEN d
    ELSE LET more == {n \in Nodes \ (reached \cup {source_}) :
                        \E a \in ResidualArcs : ArcTail(a) = n /\ ArcHead(a) \in reached}
         IN IF more = {} THEN -1 ELSE SinkDistanceFrom(v, reached \cup more, d + 1)

SinkDistance(v) == SinkDistanceFrom(v, {sink_}, 0)

\* C31: immediately after every GlobalUpdate, every node other than the
\* source with a residual path to the sink that does not pass through the
\* source (in the residual graph the update leaves, excess stealing done) has
\* as height the number of arcs of a shortest such path; every other node
\* but the source has height exactly 2 * num_nodes - 1; the source has
\* height num_nodes.  (The last step of GlobalUpdate changes no residual
\* capacity, so the distances are those of the state it starts from.)
C31_GlobalUpdateGivesExactDistances ==
    [][pc = "GlobalUpdate" /\ pc' = "ActiveLoop" =>
          /\ residual_arc_capacity_' = residual_arc_capacity_
          /\ \A v \in Nodes :
                node_potential_'[v] =
                    IF v = source_ THEN num_nodes
                    ELSE IF SinkDistance(v) >= 0 THEN SinkDistance(v)
                    ELSE UnreachedHeight]_vars

\* A GlobalUpdate has returned and nothing was discharged since: it seeded
\* the active queue, labelled a node two arcs away from the sink and left
\* another node unreached.
C31_Witness ==
    /\ pc = "ActiveLoop" /\ queue_index = 0 /\ node = NoNode
    /\ \A v \in Nodes \ {source_, sink_} : skip_active_node[v] = 0
    /\ ~IsEmpty(even_queue_, odd_queue_)
    /\ \E v \in Nodes : node_potential_[v] = 2 /\ SinkDistance(v) = 2
    /\ \E v \in Nodes \ {source_} :
          node_potential_[v] = UnreachedHeight /\ SinkDistance(v) = -1

\* The nodes GlobalUpdate has to seed, in the order of the BFS: reached,
\* neither source nor sink, with excess.
ReachedActiveNodes ==
    SelectSeq(bfs_queue_, LAMBDA n : n # source_ /\ n # sink_ /\ node_excess_[n] > 0)

\* C32: the active queue is empty every time GlobalUpdate starts
\* (DCHECK(IsEmptyActiveNodeContainer()) never fails), and when GlobalUpdate
\* returns the queue holds exactly the nodes that the BFS reached, that are
\* neither source nor sink and have excess > 0, each once, pushed in
\* nondecreasing order of height, each with a height below num_nodes.
C32_GlobalUpdateSeedsActiveNodes ==
    [][/\ "GlobalUpdate: DCHECK(IsEmptyActiveNodeContainer())" \notin failed'
       /\ pc' \in {"DoLoop", "GlobalUpdate"} => even_queue_' = <<>> /\ odd_queue_' = <<>>
       /\ pc = "GlobalUpdate" /\ pc' = "ActiveLoop" =>
             LET seeded == ReachedActiveNodes
                 ofParity(r) == SelectSeq(seeded, LAMBDA n : node_potential_'[n] % 2 = r)
                 withHeight(q) == [i \in 1 .. Len(q) |-> <<q[i], node_potential_'[q[i]]>>]
             IN /\ \A i, j \in 1 .. Len(bfs_queue_) : i # j => bfs_queue_[i] # bfs_queue_[j]
                /\ even_queue_' = withHeight(ofParity(0))
                /\ odd_queue_' = withHeight(ofParity(1))
                /\ \A i \in 1 .. Len(seeded) : node_potential_'[seeded[i]] < num_nodes
                /\ \A i, j \in 1 .. Len(seeded) :
                      i < j => node_potential_'[seeded[i]] <= node_potential_'[seeded[j]]]_vars

\* GlobalUpdate has just run and reached four nodes: the two that hold excess
\* are the queued nodes, in the order of the BFS and stored with their new
\* heights, and the reached node without excess stayed out of the queue.
C32_Witness ==
    /\ pc = "ActiveLoop" /\ queue_index = 0 /\ node = NoNode
    /\ Len(bfs_queue_) = 4
    /\ Len(ReachedActiveNodes) = 2
    /\ even_queue_ \o odd_queue_ =
         [i \in 1 .. 2 |-> <<ReachedActiveNodes[i], node_potential_[ReachedActiveNodes[i]]>>]

\* C33: every Discharge(v) call is made on an active node, so
\* DCHECK(IsActive(node)) never fails; it returns only with excess[v] = 0 or
\* height[v] >= num_nodes; every push is on an admissible arc out of v, of
\* amount min(excess[v], res_cap) > 0, and its head is never the source.  It
\* terminates: while it runs, each step either pushes and lowers excess[v],
\* or lifts v to a height still below num_nodes, or leaves the height alone and
\* sets the scan on an admissible arc, which the next step pushes on.
C33_DischargeActsOnActiveNodes ==
    [][/\ "Discharge: DCHECK(IsActive(node))" \notin failed'
       /\ pc # "Discharge" /\ pc' = "Discharge" =>
             /\ pc = "ActiveLoop"
             /\ node' # source_ /\ node' # sink_ /\ node_excess_'[node'] > 0
       /\ pc = "Discharge" /\ pc' # "Discharge" =>
             /\ pc' = "ActiveLoop"
             /\ node_excess_'[node] = 0 \/ node_potential_'[node] >= num_nodes
       /\ pc = "Discharge" /\ flowVars' # flowVars =>
             \E arc \in AllArcs :
                LET amount == Min(node_excess_[node], residual_arc_capacity_[arc])
                IN /\ ArcTail(arc) = node
                   /\ ArcHead(arc) # source_
                   /\ residual_arc_capacity_[arc] > 0
                   /\ node_potential_[node] = node_potential_[ArcHead(arc)] + 1
                   /\ amount > 0
                   /\ residual_arc_capacity_' =
                         [residual_arc_capacity_ EXCEPT ![arc] = @ - amount,
                                                        ![Opposite(arc)] = @ + amount]
                   /\ node_excess_' =
                         [node_excess_ EXCEPT ![node] = @ - amount,
                                              ![ArcHead(arc)] = @ + amount]
                   /\ node_potential_' = node_potential_
       /\ pc = "Discharge" /\ pc' = "Discharge" =>
             \/ /\ node_excess_'[node] < node_excess_[node]
                /\ node_excess_'[node] > 0
                /\ node_potential_' = node_potential_
             \/ /\ flowVars' = flowVars
                /\ node_potential_'[node] > node_potential_[node]
                /\ node_potential_'[node] < num_nodes
             \/ /\ flowVars' = flowVars
                /\ node_potential_' = node_potential_
                /\ first_admissible_arc_'[node] # kNilArc
                /\ IsAdmissible(node, first_admissible_arc_'[node], node_potential_)
                /\ it' = IteratorStart(node, first_admissible_arc_'[node])]_vars

\* Between two Discharge calls: some call lifted a node by more than one
\* level, and the node has since been emptied by a push to a node other than
\* the sink, which holds the excess.
C33_Witness ==
    /\ pc = "ActiveLoop" /\ node = NoNode
    /\ \E v \in Nodes \ {source_, sink_} :
          /\ node_excess_[v] = 0
          /\ skip_active_node[v] = 1
          /\ first_admissible_arc_[v] # kNilArc
          /\ ArcHead(first_admissible_arc_[v]) # sink_
          /\ node_excess_[ArcHead(first_admissible_arc_[v])] > 0

\* The nodes held by the active queue.
QueuedNodes ==
    {even_queue_[i][1] : i \in 1 .. Len(even_queue_)}
    \cup {odd_queue_[i][1] : i \in 1 .. Len(odd_queue_)}

\* C34 as stated: during Discharge the head of a pushed arc is enqueued only if
\* it had zero excess and is neither the source nor the sink, so the sink is
\* never inserted into the active queue.
C34_DischargeNeverEnqueuesSink ==
    [][pc = "Discharge" /\ queueVars' # queueVars =>
          \E head \in Nodes \ {source_, sink_} :
             /\ node_excess_[head] = 0
             /\ <<even_queue_', odd_queue_'>> =
                   Push(even_queue_, odd_queue_, head, node_potential_[head])]_vars

\* C34 amended: during Discharge the head of a pushed arc is enqueued exactly
\* when it had zero excess before the push, with its height as priority; the
\* head is never the source but may be the sink; a step of Discharge that
\* pushes nothing leaves the queue alone; the driver pops a queued sink
\* without discharging it and without counting it in num_skipped.
C34_DischargeEnqueuesHeadsWithoutExcess ==
    [][/\ pc = "Discharge" =>
             \A arc \in AllArcs :
                residual_arc_capacity_'[arc] < residual_arc_capacity_[arc] =>
                   /\ ArcTail(arc) = node
                   /\ ArcHead(arc) # source_
                   /\ <<even_queue_', odd_queue_'>> =
                         IF node_excess_[ArcHead(arc)] = 0
                         THEN Push(even_queue_, odd_queue_, ArcHead(arc),
                                   node_potential_[ArcHead(arc)])
                         ELSE <<even_queue_, odd_queue_>>
       /\ pc = "Discharge" /\ flowVars' = flowVars => queueVars' = queueVars
       /\ /\ pc = "ActiveLoop" /\ queueVars' # queueVars
          /\ Pop(even_queue_, odd_queue_)[1] = sink_
          => /\ pc' = "ActiveLoop"
             /\ num_skipped' = num_skipped
             /\ node' = NoNode
             /\ UNCHANGED <<flowVars, heightVars>>]_vars

\* Discharge pushed into a sink without excess and goes on with the same node:
\* the sink is in the active queue.
C34_Witness ==
    /\ pc = "Discharge"
    /\ sink_ \in QueuedNodes
    /\ node_excess_[sink_] > 0
    /\ node_excess_[node] > 0

\* The four assertions of PriorityQueueWithRestrictedPush::Push.
PushAssertions ==
    {"Push: DCHECK(priority >= even_queue_.back().second - 1)",
     "Push: DCHECK(priority >= odd_queue_.back().second - 1)",
     "Push: DCHECK(priority >= even_queue_.back().second)",
     "Push: DCHECK(priority >= odd_queue_.back().second)"}

\* The pairs of the active queue, in no particular order.
QueuedPairs == even_queue_ \o odd_queue_

\* C35: every PushActiveNode of Solve, by the seeding of GlobalUpdate and by
\* Discharge, pushes a node whose height is at least the highest priority in
\* the queue minus one, no assertion of Push fails, and every Pop of the
\* driver removes and returns a queued node of maximum height.
C35_ActiveQueueContractKept ==
    [][/\ failed' \cap PushAssertions = {}
       /\ pc = "Discharge" /\ queueVars' # queueVars =>
             \E head \in Nodes :
                /\ <<even_queue_', odd_queue_'>> =
                      Push(even_queue_, odd_queue_, head, node_potential_[head])
                /\ QueuedPairs # <<>> =>
                      node_potential_[head] >= HighestPriority(QueuedPairs) - 1
       /\ pc = "GlobalUpdate" /\ pc' = "ActiveLoop" =>
             /\ even_queue_ = <<>> /\ odd_queue_ = <<>>
             /\ \A i, j \in 1 .. Len(ReachedActiveNodes) :
                   i < j => node_potential_'[ReachedActiveNodes[j]]
                              >= node_potential_'[ReachedActiveNodes[i]]
       /\ pc = "ActiveLoop" /\ queueVars' # queueVars =>
             \E i \in 1 .. Len(QueuedPairs) :
                /\ QueuedPairs[i][2] = HighestPriority(QueuedPairs)
                /\ \A j \in 1 .. Len(QueuedPairs) :
                      node_potential_[QueuedPairs[j][1]] <= node_potential_[QueuedPairs[i][1]]
                /\ even_queue_' \o odd_queue_' = RemoveAt(QueuedPairs, i)
                /\ Len(even_queue_') <= Len(even_queue_)
                /\ Len(odd_queue_') <= Len(odd_queue_)
                /\ pc' = "Discharge" => node' = QueuedPairs[i][1]]_vars

\* The driver is about to pop from a queue that holds nodes of both parities,
\* pushed by Discharge below the height of the node it ran on.
C35_Witness ==
    /\ pc = "ActiveLoop"
    /\ even_queue_ # <<>> /\ odd_queue_ # <<>>
    /\ failed = {}
    /\ \E i \in 1 .. Len(QueuedPairs) :
          QueuedPairs[i][2] = HighestPriority(QueuedPairs) - 1

\* The steps of PushFlowExcessBackToSource.
PushBackPhase == pc \in {"PushBack", "Dfs", "Return"}

\* C36: within Solve the discharge loop is entered only by a completed
\* GlobalUpdate, so that a GlobalUpdate lies between any call of
\* PushFlowExcessBackToSource and the next Discharge and no Discharge precedes
\* the first GlobalUpdate; PushFlowExcessBackToSource is called only from the
\* discharge loop, with the active queue empty and no node skipped in the last
\* pass.
C36_GlobalUpdateBeforeDischarge ==
    [][/\ pc' = "Discharge" => pc \in {"ActiveLoop", "Discharge"}
       /\ pc' = "ActiveLoop" => pc \in {"GlobalUpdate", "ActiveLoop", "Discharge"}
       /\ pc = "GlobalUpdate" /\ pc' = "ActiveLoop" =>
             /\ bfs_queue_ # <<>> /\ bfs_queue_[1] = sink_
             /\ queue_index = Len(bfs_queue_)
       /\ pc' = "GlobalUpdate" => pc \in {"DoLoop", "GlobalUpdate"}
       /\ PushBackPhase => pc' \in {"PushBack", "Dfs", "Return", "Saturate"}
       /\ pc = "Saturate" => pc' \in {"Saturate", "DoLoop", "Finish"}
       /\ pc \in {"Finish", "idle"} => pc' \in {"idle", "Saturate"}
       /\ pc' = "PushBack" /\ pc # "PushBack" =>
             /\ pc = "ActiveLoop"
             /\ even_queue_ = <<>> /\ odd_queue_ = <<>>
             /\ num_skipped = 0]_vars

\* Discharge runs in the second Solve: PushFlowExcessBackToSource of the
\* first one and a GlobalUpdate of the second one lie behind it.
C36_Witness ==
    /\ pc = "Discharge"
    /\ num_solves = 2
    /\ bfs_queue_ # <<>> /\ bfs_queue_[1] = sink_
    /\ node_in_bfs_queue_[node]

\* The arcs of the cycle being cancelled: the arc that closed it and the arcs
\* of the DFS branch from cycle_begin on.
CycleArcs ==
    {cycle.arc} \cup {BranchArc(i) : i \in cycle.cycle_begin .. (Len(index_branch) - 1)}

\* The cancellation has pushed on every arc of the cycle.
CycleCancelled == pc = "Dfs" /\ cycle # NoCycle /\ cycle.i < cycle.cycle_begin

\* C37: a cycle cancellation pushes -delta, delta the smallest flow on the
\* arcs of the cycle, all of them positive, on every arc of the cycle and on
\* no other arc; it leaves the excess of every node as it was, so
\* DCHECK_EQ(excess, node_excess_[head]) never fails; residual capacities stay
\* >= 0; the flow of at least one cycle arc becomes 0 and the cycle arcs of the
\* branch below first_saturated_index keep a positive flow.
C37_CycleCancellationFrame ==
    /\ "PushFlowExcessBackToSource: DCHECK_EQ(excess, node_excess_[head])" \notin failed
    /\ "PushFlowExcessBackToSource: DCHECK_GT(Flow(arc_on_cycle), 0)" \notin failed
    /\ pc = "Dfs" => \A a \in AllArcs : residual_arc_capacity_[a] >= 0
    /\ CycleCancelled =>
          LET delta == CHOOSE d \in {cycle.flow_before[a] : a \in CycleArcs} :
                          \A a \in CycleArcs : d <= cycle.flow_before[a]
          IN /\ CycleArcs \subseteq DirectArcs
             /\ \A a \in CycleArcs : cycle.flow_before[a] > 0
             /\ delta > 0
             /\ \A i \in cycle.cycle_begin .. (Len(index_branch) - 1) :
                   ArcHead(BranchArc(i)) =
                      IF i = Len(index_branch) - 1 THEN ArcTail(cycle.arc)
                      ELSE ArcTail(BranchArc(i + 1))
             /\ ArcHead(cycle.arc) =
                   IF cycle.cycle_begin = Len(index_branch) THEN ArcTail(cycle.arc)
                   ELSE ArcTail(BranchArc(cycle.cycle_begin))
             /\ \A a \in DirectArcs :
                   Flow(a) = cycle.flow_before[a] - (IF a \in CycleArcs THEN delta ELSE 0)
             /\ \A a \in DirectArcs : Capacity(a) = set_capacity[a]
             /\ node_excess_ = cycle.node_excess_before
             /\ \E a \in CycleArcs : Flow(a) = 0
             /\ \A i \in cycle.cycle_begin .. (cycle.first_saturated_index - 1) :
                   Flow(BranchArc(i)) > 0

\* A cycle of two arcs that carried different flows has been cancelled: one of
\* its arcs is left with flow.
C37_Witness ==
    /\ CycleCancelled
    /\ Cardinality(CycleArcs) = 2
    /\ \E a \in CycleArcs : Flow(a) > 0
    /\ failed = {}

\* C38: PushFlowExcessBackToSource never changes excess[sink] and never
\* increases the flow of a forward arc; no flow moves between the end of the
\* last discharge loop and the end of Solve other than in that routine (a push
\* of SaturateOutgoingArcsFromSource is followed by another discharge loop), so
\* the GetOptimalFlow() that Solve ends with is excess[sink] as the last
\* discharge loop left it.
C38_PushBackKeepsSinkExcess ==
    [][/\ PushBackPhase =>
             /\ node_excess_'[sink_] = node_excess_[sink_]
             /\ \A a \in DirectArcs :
                   residual_arc_capacity_'[Opposite(a)] <= residual_arc_capacity_[Opposite(a)]
       /\ pc = "Saturate" /\ flowVars' # flowVars => flow_pushed' \/ pc' = "DoLoop"
       /\ pc = "Saturate" /\ flow_pushed => flow_pushed' \/ pc' = "DoLoop"
       /\ pc = "Saturate" /\ pc' = "Finish" => ~flow_pushed /\ flowVars' = flowVars
       /\ pc = "Finish" =>
             /\ flowVars' = flowVars
             /\ pc' = "idle"
             /\ results_in_a_row'[Len(results_in_a_row')].optimal_flow = node_excess_[sink_]]_vars

\* PushFlowExcessBackToSource has returned the excess of every node: the sink
\* keeps its excess while an arc out of the source has lost part of its flow.
C38_Witness ==
    /\ pc = "Return"
    /\ reverse_topological_order # <<>>
    /\ return_index = Len(reverse_topological_order)
    /\ node_excess_[sink_] > 0
    /\ \E a \in DirectArcs :
          ArcTail(a) = source_ /\ Flow(a) > 0 /\ Flow(a) < Capacity(a)

\* C39: at every point of the discharge loop of the driver each node occurs
\* at most once in the active queue, the priority stored with a queued node is
\* its current height, and every queued node other than the sink has excess
\* > 0 and a height below num_nodes.
C39_QueuedNodesAreActive ==
    DischargePhase =>
       /\ \A i, j \in 1 .. Len(QueuedPairs) :
             i # j => QueuedPairs[i][1] # QueuedPairs[j][1]
       /\ \A i \in 1 .. Len(QueuedPairs) :
             /\ QueuedPairs[i][1] \in Nodes \ {source_}
             /\ QueuedPairs[i][2] = node_potential_[QueuedPairs[i][1]]
             /\ QueuedPairs[i][1] # sink_ =>
                   /\ node_excess_[QueuedPairs[i][1]] > 0
                   /\ node_potential_[QueuedPairs[i][1]] < num_nodes

\* Discharge has emptied its node into the sink, which it enqueued, while
\* another node with excess waits in the queue.
C39_Witness ==
    /\ pc = "ActiveLoop"
    /\ sink_ \in QueuedNodes
    /\ \E n \in QueuedNodes : n # sink_ /\ node_excess_[n] > 0
    /\ \E n \in Nodes \ (QueuedNodes \cup {source_}) :
          /\ node_excess_[n] = 0
          /\ first_admissible_arc_[n] # kNilArc
          /\ ArcHead(first_admissible_arc_[n]) = sink_

\* The forward arcs into the source and out of the sink.
ArcsAgainstTerminals ==
    {a \in DirectArcs : ArcHead(a) = source_ \/ ArcTail(a) = sink_}

\* C40: when source and sink are distinct nodes of the graph, at every step of
\* Solve and after it every forward arc whose head is the source and every
\* forward arc whose tail is the sink carries zero flow: the flow of an arc
\* s->a is never recorded on, or cancelled through, an anti-parallel arc a->s.
C40_NoFlowIntoSourceOrOutOfSink ==
    (source_ # sink_ /\ source_ \in Nodes /\ sink_ \in Nodes) =>
       \A a \in ArcsAgainstTerminals :
          Flow(a) = 0

\* Solve has ended with flow on an arc out of the source and on an arc into
\* the sink whose anti-parallel arcs have capacity and carry nothing.
C40_Witness ==
    /\ pc = "idle" /\ last_call = "Solve"
    /\ node_excess_[sink_] > 0
    /\ \E a, b \in DirectArcs :
          /\ ArcTail(a) = source_ /\ Flow(a) > 0
          /\ ArcHead(b) = source_ /\ ArcTail(b) = ArcHead(a)
          /\ Capacity(b) > 0 /\ Flow(b) = 0
    /\ \E a, b \in DirectArcs :
          /\ ArcHead(a) = sink_ /\ Flow(a) > 0
          /\ ArcTail(b) = sink_ /\ ArcHead(b) = ArcTail(a)
          /\ Capacity(b) > 0 /\ Flow(b) = 0

NoFailure == failed = {}

====
